---- MODULE Spec2Model ----
(***************************************************************************)
(* Export compilation pipeline of mystmd (myst-cli build/utils and         *)
(* build/tex): resolution of declared export entries into export jobs      *)
(* (prepareExportOptions, getOutput, filterAndMakeUnique, collect*Export-  *)
(* Options, collectExportOptions) and the batch runner localArticleToTex.  *)
(*                                                                         *)
(* Strings of the program (paths, file names) are sequences of one-letter  *)
(* strings, so that path.parse, path.extname, path.join, String.endsWith   *)
(* and template-literal concatenation are computed letter by letter.       *)
(* The empty sequence is the empty string; the code tests strings only for *)
(* truthiness, and undefined and '' are both falsy, so an absent string    *)
(* option is the empty sequence too.  An absent array is told from an      *)
(* empty one by a has* flag, because [] is truthy in JavaScript.           *)
(***************************************************************************)
EXTENDS Integers, Sequences, FiniteSets, TLC

VARIABLES
    files,          \* source files handed to the resolver, in order
    frontmatter,    \* source file -> declared export entries (raw front matter)
    requested,      \* export formats requested from collectExportOptions
    opts,           \* ExportOptions of the call
    api,            \* the entry point that was called
    pc,             \* position of the running call
    call,           \* the last resolver invocation: function, source file, extension, formats
    jobs,           \* job list returned by the call (ExportWithOutput[])
    computed,       \* last resolver invocation: each prepared entry with getOutput's value for it
    diags,          \* diagnostics logged on the session, in order
    taskNext,       \* collectExportOptions: per file, index of its next format branch
    taskList,       \* collectExportOptions: per file, its fileExportOptionsList
    jobState,       \* localArticleToTex: per job index, state of its promise
    scratch,        \* localArticleToTex: per job index, the folder createTempFolder gave it ('' if none)
    tempFolders,    \* localArticleToTex: results.tempFolders
    tree,           \* extractTaggedContent: the tree it is given (mutated in place)
    treeBefore,     \* extractTaggedContent: the tree as it was when the call started
    tagDefinition,  \* extractTaggedContent: the tag definition (id, max_chars, max_words)
    tagged,         \* extractTaggedContent: the returned value
    mdast,          \* extractTexPart: the article's tree, as the parts tagged in it
    partDefinition, \* extractTexPart: the template's part definition (id, as_list)
    fragments,      \* extractTexPart: the returned value
    content,        \* localArticleToTexTemplated: per article, what getFileContent loaded
    articleState,   \* localArticleToTexTemplated: per article, position of its callback
    parts,          \* localArticleToTexTemplated: parts, part id -> value
    collectedImports, \* localArticleToTexTemplated: collectedImports
    preambleData,   \* localArticleToTexTemplated: preambleData
    hasGlossaries,  \* localArticleToTexTemplated: hasGlossaries
    written,        \* localArticleToTexTemplated: files written, in order
    renderCalls,    \* runTexExport: what every mdastToTex call renders, and its printGlossaries
    exportResults,  \* runTexExport, runTexZipExport: the ExportResults returned
    clock,          \* launchJupyterServer: seconds since the launch
    promise,        \* launchJupyterServer: the returned promise
    listeners,      \* launchJupyterServer: 'data' listeners on proc.stderr and proc.stdout
    emitted,        \* launchJupyterServer: the chunks the server wrote to stderr
    handled,        \* launchJupyterServer: the chunks the stderr handler ran on
    timer,          \* launchJupyterServer: the setTimeout timer
    operands,       \* side-data merge: the values to merge
    merged          \* side-data merge: the merge results

resolverVars == <<files, frontmatter, requested, opts, api, pc, call, jobs, computed, diags,
                  taskNext, taskList, jobState, scratch, tempFolders>>

extractVars == <<tree, treeBefore, tagDefinition, tagged, mdast, partDefinition, fragments>>

templatedVars == <<content, articleState, parts, collectedImports, preambleData,
                   hasGlossaries, written, renderCalls, exportResults>>

mergeVars == <<operands, merged>>

serverVars == <<clock, promise, listeners, emitted, handled, timer>>

vars == <<resolverVars, extractVars, templatedVars, mergeVars, serverVars>>

----------------------------------------------------------------------------
(* Bounds *)

\* longest list of export entries declared in one front matter
MaxExports == 3

\* longest list of export entries per front matter in a batch of several files
MaxBatchExports == 1

----------------------------------------------------------------------------
(* Sequence helpers *)

Max(S) == CHOOSE x \in S : \A y \in S : y <= x

Min2(a, b) == IF a < b THEN a ELSE b

RECURSIVE Flatten(_)
Flatten(ss) == IF ss = <<>> THEN <<>> ELSE Head(ss) \o Flatten(Tail(ss))

MapSeq(F(_), s) == [i \in 1..Len(s) |-> F(s[i])]

Includes(s, x) == \E i \in 1..Len(s) : s[i] = x

SeqsUpTo(S, n) == UNION {[1..k -> S] : k \in 0..n}

\* String.prototype.endsWith
EndsWith(s, suf) ==
    /\ Len(suf) <= Len(s)
    /\ SubSeq(s, Len(s) - Len(suf) + 1, Len(s)) = suf

\* String(n) for a non-negative integer, as a template literal prints it
DigitChar(d) == <<"0", "1", "2", "3", "4", "5", "6", "7", "8", "9">>[d + 1]

RECURSIVE NumToStr(_)
NumToStr(n) == IF n < 10 THEN <<DigitChar(n)>>
               ELSE NumToStr(n \div 10) \o <<DigitChar(n % 10)>>

----------------------------------------------------------------------------
(* node:path (POSIX), on paths without '.', '..' or empty segments *)

LastIndexOf(s, c) ==
    LET I == {i \in 1..Len(s) : s[i] = c}
    IN  IF I = {} THEN 0 ELSE Max(I)

\* path.basename(p)
Basename(p) == SubSeq(p, LastIndexOf(p, "/") + 1, Len(p))

\* path.dirname(p)
Dirname(p) ==
    LET k == LastIndexOf(p, "/")
    IN  IF k = 0 THEN <<".">>
        ELSE IF k = 1 THEN <<"/">>
        ELSE SubSeq(p, 1, k - 1)

\* path.extname(p): from the last '.' of the base name, unless the base name
\* starts with that '.'
Extname(p) ==
    LET b == Basename(p)
        k == LastIndexOf(b, ".")
    IN  IF k <= 1 THEN <<>> ELSE SubSeq(b, k, Len(b))

\* path.parse(p)
PathParse(p) ==
    LET k == LastIndexOf(p, "/")
        b == Basename(p)
        e == Extname(p)
    IN  [dir  |-> IF k = 0 THEN <<>> ELSE IF k = 1 THEN <<"/">> ELSE SubSeq(p, 1, k - 1),
         base |-> b,
         ext  |-> e,
         name |-> SubSeq(b, 1, Len(b) - Len(e))]

\* path.join(a, b)
PathJoin(a, b) ==
    IF a = <<>> THEN (IF b = <<>> THEN <<".">> ELSE b)
    ELSE IF b = <<>> THEN a
    ELSE IF a[Len(a)] = "/" THEN a \o b
    ELSE a \o <<"/">> \o b

IsAbsolute(p) == p # <<>> /\ p[1] = "/"

\* path.resolve(from, to), from absolute
PathResolve(from, to) ==
    IF IsAbsolute(to) THEN to
    ELSE IF to = <<>> THEN from
    ELSE PathJoin(from, to)

----------------------------------------------------------------------------
(* Letters of the program's string literals *)

DOT_ZIP == <<".", "z", "i", "p">>
EXT_TEX == <<"t", "e", "x">>
EXT_PDF == <<"p", "d", "f">>
EXT_TYP == <<"t", "y", "p">>
EXT_DOCX == <<"d", "o", "c", "x">>
EXT_XML == <<"x", "m", "l">>
EXT_MD == <<"m", "d">>
EXT_ZIP == <<"z", "i", "p">>

\* export const SOURCE_EXTENSIONS = ['.ipynb', '.md', '.tex']
SOURCE_EXTENSIONS ==
    << <<".", "i", "p", "y", "n", "b">>, <<".", "m", "d">>, <<".", "t", "e", "x">> >>

----------------------------------------------------------------------------
(* The environment: files on disk and the inputs a call is given *)

SRC_A == <<"/", "p", "/", "a", ".", "m", "d">>
SRC_B == <<"/", "p", "/", "b", ".", "m", "d">>
CONFIG_FILE == <<"/", "p", "/", "m", "y", "s", "t", ".", "y", "m", "l">>
PROJECT_DIR == <<"/", "p">>
TPL_LOCAL == <<"/", "p", "/", "t", "p">>

\* fs.existsSync
Disk == {SRC_A, SRC_B, CONFIG_FILE, TPL_LOCAL}
ExistsSync(p) == p \in Disk

NoArticles == [hasArticles |-> FALSE, articles |-> <<>>]
NoSub == [hasSub |-> FALSE, sub_articles |-> <<>>]

Entry(format, output, template, arts, subs) ==
    [format |-> format, output |-> output, template |-> template,
     hasArticles |-> arts.hasArticles, articles |-> arts.articles,
     hasSub |-> subs.hasSub, sub_articles |-> subs.sub_articles]

Arts(list) == [hasArticles |-> TRUE, articles |-> list]
Subs(list) == [hasSub |-> TRUE, sub_articles |-> list]

REL_B == <<"b", ".", "m", "d">>
REL_MISSING == <<"m", ".", "m", "d">>
REL_TP == <<"t", "p">>
REL_TQ == <<"t", "q">>
OUT_A_TEX == <<"a", ".", "t", "e", "x">>
OUT_A1_TEX == <<"a", "_", "1", ".", "t", "e", "x">>
OUT_DIR == <<"o">>
OUT_A_ZIP == <<"a", ".", "z", "i", "p">>

\* export entries a front matter may declare
ExportChoices ==
    { Entry("tex", OUT_A_TEX, <<>>, NoArticles, NoSub),
      Entry("tex", OUT_A1_TEX, REL_TP, Arts(<<REL_MISSING, REL_B>>), NoSub),
      Entry("tex", OUT_DIR, REL_TQ, Arts(<<REL_B>>), Subs(<<REL_B, REL_MISSING>>)),
      Entry("tex", OUT_A_ZIP, <<>>, Arts(<<REL_MISSING>>), Subs(<<REL_MISSING>>)),
      Entry("meca", OUT_A_ZIP, <<>>, Arts(<<REL_MISSING>>), NoSub) }

FILENAME_TEX == <<"/", "o", "/", "f", ".", "t", "e", "x">>
FILENAME_DIR == <<"/", "o", "/", "f">>
TEMPLATE_OPT == <<"/", "t", "/", "x">>

\* ExportOptions of a call (filename, template, projectPath: '' when not given)
OptsChoices ==
    [filename : {<<>>, FILENAME_TEX, FILENAME_DIR},
     template : {<<>>, TEMPLATE_OPT},
     disableTemplate : BOOLEAN,
     force : BOOLEAN,
     zip : BOOLEAN,
     projectPath : {<<>>},
     throwOnFailure : {FALSE}]

OUT_A_DOCX == <<"a", ".", "d", "o", "c", "x">>

\* export entries the front matters of a batch may declare
BatchChoices ==
    { Entry("tex", OUT_A_TEX, <<>>, NoArticles, NoSub),
      Entry("tex", OUT_A_ZIP, <<>>, Arts(<<REL_B>>), NoSub),
      Entry("docx", OUT_A_DOCX, <<>>, Arts(<<REL_B>>), NoSub) }

BatchOptsChoices ==
    [filename : {<<>>, FILENAME_TEX, FILENAME_DIR},
     template : {<<>>, TEMPLATE_OPT},
     disableTemplate : BOOLEAN,
     force : {FALSE},
     zip : BOOLEAN,
     projectPath : {<<>>, PROJECT_DIR},
     throwOnFailure : BOOLEAN]

Truthy(s) == s # <<>>

----------------------------------------------------------------------------
(* Diagnostics *)

RULE_ARTICLE_EXISTS == "exportArticleExists"
RULE_EXTENSION_CORRECT == "exportExtensionCorrect"

\* fileError(vfile, message, {ruleId}) and addWarningForFile(session, file,
\* message, 'error', {ruleId}): a diagnostic scoped to the file `file`
FileError(file, rule, what, subject) ==
    [file |-> file, level |-> "error", rule |-> rule, what |-> what,
     subject |-> subject]

----------------------------------------------------------------------------
(* prepareExportOptions *)

\* getExportListFromRawFrontmatter: the declared entries of the requested formats
GetExportListFromRawFrontmatter(formats, rawFrontmatter) ==
    SelectSeq(rawFrontmatter, LAMBDA e : Includes(formats, e.format))

\* mutant: the default entry takes the last requested format
DefaultExport_LastFormat(formats) ==
    <<Entry(formats[Len(formats)], <<>>, <<>>, NoArticles, NoSub)>>

\* exportOptions = [{ format: formats[0] }]
DefaultExport(formats) == <<Entry(formats[1], <<>>, <<>>, NoArticles, NoSub)>>

\* if (exportOptions.length === 0 && formats.length && opts.force)
WithForcedDefault(exportOptions, formats, o) ==
    IF Len(exportOptions) = 0 /\ Len(formats) # 0 /\ o.force
    THEN DefaultExport(formats)
    ELSE exportOptions

\* mutant: only the filename override limits the list to one entry
SingleExportIfOverride_FilenameOnly(exportOptions, o) ==
    IF Truthy(o.filename)
    THEN SubSeq(exportOptions, 1, Min2(1, Len(exportOptions)))
    ELSE exportOptions

\* if (filename || disableTemplate || template) exportOptions.slice(0, 1)
SingleExportIfOverride(exportOptions, o) ==
    IF Truthy(o.filename) \/ o.disableTemplate \/ Truthy(o.template)
    THEN SubSeq(exportOptions, 1, Min2(1, Len(exportOptions)))
    ELSE exportOptions

\* if (!exp.articles && SOURCE_EXTENSIONS.includes(path.extname(sourceFile)))
DefaultArticles(sourceFile, exp) ==
    IF ~exp.hasArticles /\ Includes(SOURCE_EXTENSIONS, Extname(sourceFile))
    THEN [exp EXCEPT !.hasArticles = TRUE, !.articles = <<sourceFile>>]
    ELSE exp

\* resolved paths of the entries of `list` that exist on disk, in order
ResolveExisting(sourceFile, list) ==
    SelectSeq(MapSeq(LAMBDA f : PathResolve(Dirname(sourceFile), f), list), ExistsSync)

\* one diagnostic per entry of `list` that does not exist on disk, in order
MissingDiags(sourceFile, list, what) ==
    MapSeq(LAMBDA f : FileError(sourceFile, RULE_ARTICLE_EXISTS, what, f),
           SelectSeq(list, LAMBDA f : ~ExistsSync(PathResolve(Dirname(sourceFile), f))))

\* mutant: every sub_articles entry is resolved and kept
ValidateSubArticles_KeepMissing(sourceFile, exp) ==
    IF exp.hasSub
    THEN [exp EXCEPT !.sub_articles =
              MapSeq(LAMBDA f : PathResolve(Dirname(sourceFile), f), exp.sub_articles)]
    ELSE exp

\* if (exp.sub_articles) exp.sub_articles = ....map(...).filter(...)
ValidateSubArticles(sourceFile, exp) ==
    IF exp.hasSub
    THEN [exp EXCEPT !.sub_articles = ResolveExisting(sourceFile, exp.sub_articles)]
    ELSE exp

SubArticleDiags(sourceFile, exp) ==
    IF exp.hasSub THEN MissingDiags(sourceFile, exp.sub_articles, "sub_article")
    ELSE <<>>

\* the map of "Remove exports with invalid article values": <<>> is undefined
FilterArticles(sourceFile, exp, o) ==
    IF Len(exp.articles) = 0
    THEN (IF exp.format = "meca" THEN <<exp>> ELSE <<>>)
    ELSE << [exp EXCEPT !.articles = ResolveExisting(sourceFile, exp.articles)] >>

ArticleDiags(sourceFile, exp, o) ==
    IF Len(exp.articles) = 0
    THEN (IF exp.format # "meca" /\ ~o.force
          THEN <<FileError(sourceFile, RULE_ARTICLE_EXISTS, "no-article", <<>>)>>
          ELSE <<>>)
    ELSE MissingDiags(sourceFile, exp.articles, "article")

PrepareExportOptions(sourceFile, formats, o) ==
    LET declared == GetExportListFromRawFrontmatter(formats, frontmatter[sourceFile])
        exportOptions == SingleExportIfOverride(WithForcedDefault(declared, formats, o), o)
        each == MapSeq(LAMBDA e : ValidateSubArticles(sourceFile, DefaultArticles(sourceFile, e)),
                       exportOptions)
        subDiags == Flatten(MapSeq(LAMBDA e : SubArticleDiags(sourceFile, e), exportOptions))
        filtered == Flatten(MapSeq(LAMBDA e : FilterArticles(sourceFile, e, o), each))
        artDiags == Flatten(MapSeq(LAMBDA e : ArticleDiags(sourceFile, e, o), each))
    IN  [list |-> filtered, diags |-> subDiags \o artDiags]

----------------------------------------------------------------------------
(* defaultNames.js *)

BUILD_DIR == <<"_", "b", "u", "i", "l", "d">>
EXPORTS_DIR == <<"e", "x", "p", "o", "r", "t", "s">>

\* getDefaultExportFilename: a base name derived from the file's name
GetDefaultExportFilename(file, projectPath) == PathParse(file).name

\* getDefaultExportFolder: an export folder under the build directory, with a
\* format-specific subfolder when a format kind is given ('' is undefined)
GetDefaultExportFolder(sourceFile, projectPath, kind) ==
    LET root == IF Truthy(projectPath) THEN projectPath ELSE Dirname(sourceFile)
        base == PathJoin(PathJoin(root, BUILD_DIR), EXPORTS_DIR)
    IN  IF Truthy(kind)
        THEN PathJoin(base, GetDefaultExportFilename(sourceFile, projectPath) \o <<"_">> \o kind)
        ELSE base

----------------------------------------------------------------------------
(* getOutput *)

\* mutant: the declared output takes precedence over the override filename
ChooseOutput_DeclaredFirst(sourceFile, exp, filename, formats, projectPath) ==
    IF Truthy(exp.output) THEN PathResolve(Dirname(sourceFile), exp.output)
    ELSE IF Truthy(filename) THEN filename
    ELSE GetDefaultExportFolder(sourceFile, projectPath,
            IF Includes(formats, "tex") THEN EXT_TEX
            ELSE IF Includes(formats, "typst") THEN EXT_TYP
            ELSE <<>>)

\* the if / else if / else choosing `output`
ChooseOutput(sourceFile, exp, filename, formats, projectPath) ==
    IF Truthy(filename) THEN filename
    ELSE IF Truthy(exp.output) THEN PathResolve(Dirname(sourceFile), exp.output)
    ELSE GetDefaultExportFolder(sourceFile, projectPath,
            IF Includes(formats, "tex") THEN EXT_TEX
            ELSE IF Includes(formats, "typst") THEN EXT_TYP
            ELSE <<>>)

\* if (!path.extname(output)) output = path.join(output, `${basename}.${extension}`)
AppendDefaultBasename(output, sourceFile, exp, extension, projectPath) ==
    IF Extname(output) = <<>>
    THEN PathJoin(output,
            GetDefaultExportFilename(
                IF Len(exp.articles) > 0 THEN exp.articles[1] ELSE sourceFile,
                projectPath) \o <<".">> \o extension)
    ELSE output

\* mutant: any extension is accepted
HasExtension_Any(output, extension) == Extname(output) # <<>>

\* if (!output.endsWith(`.${extension}`))
HasExtension(output, extension) == EndsWith(output, <<".">> \o extension)

\* output '' is the undefined return value
GetOutput(sourceFile, exp, filename, extension, formats, projectPath) ==
    LET output == AppendDefaultBasename(
                      ChooseOutput(sourceFile, exp, filename, formats, projectPath),
                      sourceFile, exp, extension, projectPath)
    IN  IF ~HasExtension(output, extension)
        THEN [output |-> <<>>,
              diags |-> <<FileError(sourceFile, RULE_EXTENSION_CORRECT, "extension", output)>>]
        ELSE [output |-> output, diags |-> <<>>]

----------------------------------------------------------------------------
(* filterAndMakeUnique *)

\* nMatch = (a) => a.filter((e) => e.output === exp.output).length
NMatch(a, output) == Len(SelectSeq(a, LAMBDA e : e.output = output))

\* path.join(dir, `${name}_${n}${ext}`)
SuffixedOutput(output, n) ==
    LET p == PathParse(output)
    IN  PathJoin(p.dir, p.name \o <<"_">> \o NumToStr(n) \o p.ext)

\* mutant: the first job with a shared path keeps it, later ones count from 1
MakeUnique_FirstUnsuffixed(exp, ind, arr) ==
    IF NMatch(SubSeq(arr, 1, ind - 1), exp.output) = 0 THEN exp
    ELSE [exp EXCEPT !.output = SuffixedOutput(exp.output,
                                    NMatch(SubSeq(arr, 1, ind - 1), exp.output))]

\* the .map callback: ind counts from 1 here, arr.slice(0, ind) is SubSeq(arr, 1, ind - 1)
MakeUnique(exp, ind, arr) ==
    IF NMatch(arr, exp.output) = 1 THEN exp
    ELSE [exp EXCEPT !.output = SuffixedOutput(exp.output,
                                    NMatch(SubSeq(arr, 1, ind - 1), exp.output))]

\* `exports` holds <<job>> for a job and <<>> for undefined
FilterAndMakeUnique(exports) ==
    LET arr == Flatten(exports)
    IN  [ind \in 1..Len(arr) |-> MakeUnique(arr[ind], ind, arr)]

----------------------------------------------------------------------------
(* collectTexExportOptions, collectBasicExportOptions, collectWordExportOptions *)

\* { ...exp, ...resolvedOptions }: templateNull is template === null
Job(exp, output, templateNull, template) ==
    [format |-> exp.format, output |-> output,
     templateNull |-> templateNull, template |-> template,
     hasArticles |-> exp.hasArticles, articles |-> exp.articles,
     hasSub |-> exp.hasSub, sub_articles |-> exp.sub_articles]

\* mutant: only the zip option selects archive wrapping
UseZip_ZipOptionOnly(exp, extension, o) ==
    /\ extension \in {EXT_TEX, EXT_TYP}
    /\ o.zip

\* useZip and expExtension
UseZip(exp, extension, o) ==
    LET rawOutput == IF Truthy(o.filename) THEN o.filename ELSE exp.output
    IN  /\ extension \in {EXT_TEX, EXT_TYP}
        /\ (o.zip \/ Extname(rawOutput) = DOT_ZIP)

ExpExtension(exp, extension, o) == IF UseZip(exp, extension, o) THEN EXT_ZIP ELSE extension

\* declared template: resolved relative to the source file if that exists on disk
DeclaredTemplate(sourceFile, exp) ==
    LET resolvedTemplatePath == PathResolve(Dirname(sourceFile), exp.template)
    IN  IF ~Truthy(exp.template) THEN exp.template
        ELSE IF ExistsSync(resolvedTemplatePath) THEN resolvedTemplatePath
        ELSE exp.template

\* mutant: the declared template takes precedence over the override template
TexTemplate_DeclaredFirst(sourceFile, exp, o) ==
    IF o.disableTemplate THEN [null |-> TRUE, path |-> <<>>]
    ELSE IF Truthy(exp.template) THEN [null |-> FALSE, path |-> DeclaredTemplate(sourceFile, exp)]
    ELSE [null |-> FALSE, path |-> o.template]

\* the if / else if chain on disableTemplate, template, exp.template
TexTemplate(sourceFile, exp, o) ==
    IF o.disableTemplate THEN [null |-> TRUE, path |-> <<>>]
    ELSE IF Truthy(o.template) THEN [null |-> FALSE, path |-> o.template]
    ELSE [null |-> FALSE, path |-> DeclaredTemplate(sourceFile, exp)]

WordTemplate(sourceFile, exp, o) ==
    IF Truthy(o.template) THEN [null |-> FALSE, path |-> o.template]
    ELSE [null |-> FALSE, path |-> DeclaredTemplate(sourceFile, exp)]

\* the callback of exportOptions.map in collectTexExportOptions
TexResolveOne(sourceFile, exp, extension, formats, projectPath, o) ==
    LET out == GetOutput(sourceFile, exp, o.filename, ExpExtension(exp, extension, o),
                         formats, projectPath)
        t == TexTemplate(sourceFile, exp, o)
    IN  [output |-> out.output, diags |-> out.diags,
         job |-> IF out.output = <<>> THEN <<>>
                 ELSE <<Job(exp, out.output, t.null, t.path)>>]

WordResolveOne(sourceFile, exp, extension, formats, projectPath, o) ==
    LET out == GetOutput(sourceFile, exp, o.filename, extension, formats, projectPath)
        t == WordTemplate(sourceFile, exp, o)
    IN  [output |-> out.output, diags |-> out.diags,
         job |-> IF out.output = <<>> THEN <<>>
                 ELSE <<Job(exp, out.output, t.null, t.path)>>]

BasicResolveOne(sourceFile, exp, extension, formats, projectPath, o) ==
    LET out == GetOutput(sourceFile, exp, o.filename, extension, formats, projectPath)
    IN  [output |-> out.output, diags |-> out.diags,
         job |-> IF out.output = <<>> THEN <<>>
                 ELSE <<Job(exp, out.output, FALSE, exp.template)>>]

\* what one resolver invocation yields: thrown, or the job list, with the
\* diagnostics it logged and the getOutput value of every prepared entry
Resolved(prepared, each) ==
    [threw |-> FALSE,
     jobs |-> FilterAndMakeUnique(MapSeq(LAMBDA r : r.job, each)),
     computed |-> [i \in 1..Len(each) |-> [exp |-> prepared.list[i], output |-> each[i].output]],
     diags |-> prepared.diags \o Flatten(MapSeq(LAMBDA r : r.diags, each))]

Thrown(prepared) ==
    [threw |-> TRUE, jobs |-> <<>>, computed |-> <<>>, diags |-> prepared.diags]

\* mutant: no check of disableTemplate against template
CollectTexExportOptions_NoConflictCheck(sourceFile, extension, formats, projectPath, o) ==
    LET prepared == PrepareExportOptions(sourceFile, formats, o)
    IN  Resolved(prepared,
            MapSeq(LAMBDA exp : TexResolveOne(sourceFile, exp, extension, formats,
                                              projectPath, o),
                   prepared.list))

\* throws when disableTemplate and template are both given
CollectTexExportOptions(sourceFile, extension, formats, projectPath, o) ==
    LET prepared == PrepareExportOptions(sourceFile, formats, o)
    IN  IF o.disableTemplate /\ Truthy(o.template) THEN Thrown(prepared)
        ELSE Resolved(prepared,
                MapSeq(LAMBDA exp : TexResolveOne(sourceFile, exp, extension, formats,
                                                  projectPath, o),
                       prepared.list))

CollectBasicExportOptions(sourceFile, extension, formats, projectPath, o) ==
    LET prepared == PrepareExportOptions(sourceFile, formats, o)
    IN  Resolved(prepared,
            MapSeq(LAMBDA exp : BasicResolveOne(sourceFile, exp, extension, formats,
                                                projectPath, o),
                   prepared.list))

CollectWordExportOptions(sourceFile, extension, formats, projectPath, o) ==
    LET prepared == PrepareExportOptions(sourceFile, formats, o)
    IN  Resolved(prepared,
            MapSeq(LAMBDA exp : WordResolveOne(sourceFile, exp, extension, formats,
                                               projectPath, o),
                   prepared.list))

----------------------------------------------------------------------------
(* One resolver invocation on one source file *)

NoCall == [fn |-> "none", file |-> <<>>, extension |-> <<>>, formats |-> <<>>]

\* the (extension, formats) pairs the callers pass to each collect function
TexCalls == { <<EXT_TEX, <<"tex">> >>, <<EXT_PDF, <<"pdf", "pdf+tex">> >>,
              <<EXT_TYP, <<"typst">> >> }
BasicCalls == { <<EXT_MD, <<"md">> >>, <<EXT_ZIP, <<"meca">> >> }
WordCalls == { <<EXT_DOCX, <<"docx">> >> }

\* the extractors have not been called
IdleExtract ==
    /\ tree = <<>>
    /\ treeBefore = <<>>
    /\ tagDefinition = <<>>
    /\ tagged = <<>>
    /\ mdast = <<>>
    /\ partDefinition = <<>>
    /\ fragments = <<>>

\* no templated export is running
IdleTemplated ==
    /\ content = <<>>
    /\ articleState = <<>>
    /\ parts = <<>>
    /\ collectedImports = <<>>
    /\ preambleData = <<>>
    /\ hasGlossaries = FALSE
    /\ written = <<>>
    /\ renderCalls = <<>>
    /\ exportResults = <<>>

\* no merge was made
IdleMerge ==
    /\ operands = <<>>
    /\ merged = <<>>

\* no Jupyter server was launched
IdleServer ==
    /\ clock = 0
    /\ promise = <<>>
    /\ listeners = <<>>
    /\ emitted = <<>>
    /\ handled = <<>>
    /\ timer = "none"

InitResolver ==
    /\ IdleExtract /\ IdleTemplated /\ IdleMerge /\ IdleServer
    /\ \E f \in {SRC_A, CONFIG_FILE} :
         /\ files = <<f>>
         /\ frontmatter \in [{f} -> SeqsUpTo(ExportChoices, MaxExports)]
    /\ opts \in OptsChoices
    /\ requested = {}
    /\ api = "resolver"
    /\ pc = "ready"
    /\ call = NoCall
    /\ jobs = <<>>
    /\ computed = <<>>
    /\ diags = <<>>
    /\ taskNext = <<>>
    /\ taskList = <<>>
    /\ jobState = <<>>
    /\ scratch = <<>>
    /\ tempFolders = <<>>

\* the caller awaits the invocation: it returns the job list or throws
Settle(fn, c, r) ==
    /\ pc' = IF r.threw THEN "threw" ELSE "returned"
    /\ call' = [fn |-> fn, file |-> files[1], extension |-> c[1], formats |-> c[2]]
    /\ jobs' = r.jobs
    /\ computed' = r.computed
    /\ diags' = diags \o r.diags
    /\ UNCHANGED <<files, frontmatter, requested, opts, api, taskNext, taskList,
                   jobState, scratch, tempFolders>>
    /\ UNCHANGED <<extractVars, templatedVars, mergeVars, serverVars>>

CallCollectTex ==
    /\ api = "resolver"
    /\ pc = "ready"
    /\ \E c \in TexCalls :
         \E r \in {CollectTexExportOptions(files[1], c[1], c[2], opts.projectPath, opts)} :
             Settle("tex", c, r)

CallCollectBasic ==
    /\ api = "resolver"
    /\ pc = "ready"
    /\ \E c \in BasicCalls :
         \E r \in {CollectBasicExportOptions(files[1], c[1], c[2], opts.projectPath, opts)} :
             Settle("basic", c, r)

CallCollectWord ==
    /\ api = "resolver"
    /\ pc = "ready"
    /\ \E c \in WordCalls :
         \E r \in {CollectWordExportOptions(files[1], c[1], c[2], opts.projectPath, opts)} :
             Settle("word", c, r)

NextResolver == CallCollectTex \/ CallCollectBasic \/ CallCollectWord

SpecResolver == InitResolver /\ [][NextResolver]_vars

----------------------------------------------------------------------------
(* Properties of one resolver invocation *)

Returned == pc = "returned"

\* the prepared entries getOutput accepted, in order: one per returned job
Kept == SelectSeq(computed, LAMBDA c : c.output # <<>>)

AnyOverride ==
    \/ Truthy(opts.filename) \/ Truthy(opts.template) \/ opts.disableTemplate
    \/ opts.force \/ opts.zip

TruncatingOverride ==
    Truthy(opts.filename) \/ Truthy(opts.template) \/ opts.disableTemplate

TemplateConflict == opts.disableTemplate /\ Truthy(opts.template)

\* C1: the N jobs one resolver invocation returns have N pairwise distinct
\* output paths
C1_DistinctOutputs ==
    Returned => \A i, j \in 1..Len(jobs) : i # j => jobs[i].output # jobs[j].output

\* the part of a path before its extension
Stem(p) == SubSeq(p, 1, Len(p) - Len(Extname(p)))

\* number of accepted entries before position j that computed the same path
EarlierSame(j) == Cardinality({i \in 1..(j - 1) : Kept[i].output = Kept[j].output})

SameCount(j) == Cardinality({i \in 1..Len(Kept) : Kept[i].output = Kept[j].output})

\* C3 as stated: of two jobs that compute the same path, the first keeps the
\* path and the second gets the suffix _1 before the extension
C3_FirstKeepsPath ==
    Returned =>
        \A i, j \in 1..Len(jobs) :
            (i < j /\ Kept[i].output = Kept[j].output /\ SameCount(j) = 2) =>
                /\ jobs[i].output = Kept[i].output
                /\ jobs[j].output = Stem(Kept[j].output) \o <<"_", "1">> \o Extname(Kept[j].output)

\* C3 amended: every job whose computed path is shared gets the suffix _k
\* before the extension, k the number of earlier jobs with that path (the
\* first gets _0, the second _1); a path computed once is kept as it is
C3_ZeroBasedSuffix ==
    Returned =>
        /\ Len(jobs) = Len(Kept)
        /\ \A j \in 1..Len(jobs) :
              jobs[j].output =
                  IF SameCount(j) = 1 THEN Kept[j].output
                  ELSE Stem(Kept[j].output) \o <<"_">> \o NumToStr(EarlierSame(j))
                           \o Extname(Kept[j].output)

C3_Witness ==
    /\ Returned
    /\ \E i, j \in 1..Len(jobs) :
          /\ i < j /\ Kept[i].output = Kept[j].output
          /\ EndsWith(jobs[i].output, <<"_", "0", ".", "t", "e", "x">>)
          /\ EndsWith(jobs[j].output, <<"_", "1", ".", "t", "e", "x">>)

\* C4: every returned job has a non-empty articles list unless its format is meca
C4_NonEmptyArticles ==
    Returned => \A j \in 1..Len(jobs) : jobs[j].format # "meca" => Len(jobs[j].articles) > 0

C6_ConflictNeverReturns == TemplateConflict => ~Returned

\* C6 amended: with disableTemplate and an override template,
\* collectTexExportOptions throws and yields no job, while
\* collectBasicExportOptions and collectWordExportOptions return
C6_ConflictThrowsInTexOnly ==
    (TemplateConflict /\ pc # "ready") =>
        /\ (call.fn = "tex") <=> (pc = "threw")
        /\ pc = "threw" => jobs = <<>>

C6_Witness == pc = "threw" /\ TemplateConflict /\ call.fn = "tex"

\* archive wrapping applies to collectTexExportOptions only
ArchiveWrapped(exp) == call.fn = "tex" /\ UseZip(exp, call.extension, opts)

\* '.zip' for an archive-wrapped job, otherwise '.<extension>'
ExpectedSuffix(exp) ==
    IF ArchiveWrapped(exp) THEN DOT_ZIP ELSE <<".">> \o call.extension

Rejected == {k \in 1..Len(computed) : computed[k].output = <<>>}

ExtensionDiags == SelectSeq(diags, LAMBDA d : d.rule = RULE_EXTENSION_CORRECT)

\* C8: every returned job's output path ends with the job's expected
\* extension; every entry whose final path does not is absent from the result
\* and has one error diagnostic on the source file
C8_OutputHasExpectedExtension ==
    Returned =>
        /\ Len(jobs) = Len(computed) - Cardinality(Rejected)
        /\ \A j \in 1..Len(jobs) : EndsWith(jobs[j].output, ExpectedSuffix(Kept[j].exp))
        /\ Len(ExtensionDiags) = Cardinality(Rejected)
        /\ \A n \in 1..Len(ExtensionDiags) :
              /\ ExtensionDiags[n].file = call.file
              /\ ExtensionDiags[n].level = "error"
              /\ \E k \in Rejected :
                    ~EndsWith(ExtensionDiags[n].subject, ExpectedSuffix(computed[k].exp))
              /\ \A j \in 1..Len(jobs) : Kept[j].output # ExtensionDiags[n].subject

C8_Witness ==
    /\ Returned
    /\ Rejected # {}
    /\ \E i, j \in 1..Len(jobs) :
          /\ i # j /\ Kept[i].output = Kept[j].output
          /\ ArchiveWrapped(Kept[j].exp)

\* C9: the path getOutput accepts is the override filename if given, else the
\* declared output under the source file's directory, else the default export
\* folder; a chosen path without extension gets '/<basename>.<ext>' appended,
\* the basename being that of the job's first article
C9_OutputPrecedence ==
    Returned =>
        \A k \in 1..Len(computed) :
            LET c == computed[k]
                ext == ExpectedSuffix(c.exp)
                first == c.exp.articles[1]
                appended(chosen) ==
                    IF Extname(chosen) # <<>> THEN c.output = chosen
                    ELSE Len(c.exp.articles) > 0 =>
                            c.output = chosen \o <<"/">> \o Stem(Basename(first)) \o ext
            IN  c.output # <<>> =>
                    /\ Truthy(opts.filename) => appended(opts.filename)
                    /\ (~Truthy(opts.filename) /\ Truthy(c.exp.output)) =>
                          appended(Dirname(call.file) \o <<"/">> \o c.exp.output)
                    /\ (~Truthy(opts.filename) /\ ~Truthy(c.exp.output)) =>
                          \E kind \in {EXT_TEX, EXT_TYP, <<>>} :
                              appended(GetDefaultExportFolder(call.file, opts.projectPath, kind))

C9_Witness ==
    /\ Returned
    /\ ~Truthy(opts.filename)
    /\ \E k \in 1..Len(computed) :
          /\ computed[k].exp.output = OUT_DIR
          /\ Len(computed[k].exp.articles) > 0
          /\ computed[k].output # <<>>

\* C10: the template of a job of collectTexExportOptions is null when
\* disableTemplate is set; else the override template; else the declared
\* template, resolved under the source file's directory when that path exists
\* on disk and unchanged otherwise; else unspecified
C10_TemplatePrecedence ==
    (Returned /\ call.fn = "tex") =>
        \A j \in 1..Len(jobs) :
            LET declared == Kept[j].exp.template
                resolved == Dirname(call.file) \o <<"/">> \o declared
            IN  /\ opts.disableTemplate => jobs[j].templateNull
                /\ ~opts.disableTemplate => ~jobs[j].templateNull
                /\ (~opts.disableTemplate /\ Truthy(opts.template)) =>
                      jobs[j].template = opts.template
                /\ (~opts.disableTemplate /\ ~Truthy(opts.template) /\ Truthy(declared)) =>
                      jobs[j].template = IF resolved \in Disk THEN resolved ELSE declared
                /\ (~opts.disableTemplate /\ ~Truthy(opts.template) /\ ~Truthy(declared)) =>
                      jobs[j].template = <<>>

C10_Witness ==
    /\ Returned /\ call.fn = "tex"
    /\ ~opts.disableTemplate /\ ~Truthy(opts.template)
    /\ \E i, j \in 1..Len(jobs) :
          /\ Kept[i].exp.template = REL_TP /\ jobs[i].template = TPL_LOCAL
          /\ Kept[j].exp.template = REL_TQ /\ jobs[j].template = REL_TQ

\* the declared entries of the requested formats, limited to the first one
\* when filename, template or disableTemplate is given
Considered ==
    LET declared == SelectSeq(frontmatter[call.file],
                              LAMBDA e : \E n \in 1..Len(call.formats) : e.format = call.formats[n])
    IN  IF TruncatingOverride /\ Len(declared) > 1 THEN <<declared[1]>> ELSE declared

\* the source file is itself an article: its extension is .ipynb, .md or .tex
SourceIsArticle ==
    \E x \in {<<".", "i", "p", "y", "n", "b">>, <<".", "m", "d">>, <<".", "t", "e", "x">>} :
        EndsWith(call.file, x)

\* the considered entries that have an article list to resolve, or are meca
Survivors ==
    SelectSeq(Considered,
              LAMBDA e : \/ e.format = "meca"
                         \/ IF e.hasArticles THEN Len(e.articles) > 0 ELSE SourceIsArticle)

\* `path` under the directory of the source file
UnderSourceDir(path) == Dirname(call.file) \o <<"/">> \o path

SubArticleDiagsOf(entry) ==
    SelectSeq(diags, LAMBDA d : d.what = "sub_article" /\ d.subject = entry)

\* C12: every sub_articles entry missing on disk yields one diagnostic on the
\* source file and is removed; the entries that exist are kept, resolved under
\* the source file's directory, in declared order; the job is retained (it is
\* returned whenever getOutput accepts its path)
C12_SubArticlesFiltered ==
    (Returned /\ Considered # <<>>) =>
        /\ Len(computed) = Len(Survivors)
        /\ \A k \in 1..Len(computed) :
              LET declared == Survivors[k].sub_articles
                  existing == SelectSeq(declared, LAMBDA f : UnderSourceDir(f) \in Disk)
              IN  /\ computed[k].exp.hasSub = Survivors[k].hasSub
                  /\ computed[k].exp.sub_articles =
                         [n \in 1..Len(existing) |-> UnderSourceDir(existing[n])]
        /\ \A j \in 1..Len(jobs) : jobs[j].sub_articles = Kept[j].exp.sub_articles
        /\ \A f \in {REL_B, REL_MISSING} :
              /\ Len(SubArticleDiagsOf(f)) =
                    IF UnderSourceDir(f) \in Disk THEN 0
                    ELSE Cardinality({<<k, n>> \in (1..Len(Considered)) \X (1..2) :
                                        /\ Considered[k].hasSub
                                        /\ n <= Len(Considered[k].sub_articles)
                                        /\ Considered[k].sub_articles[n] = f})
              /\ \A n \in 1..Len(SubArticleDiagsOf(f)) :
                    SubArticleDiagsOf(f)[n].file = call.file

\* a job declared with sub_articles [b.md, m.md], m.md missing, is returned
\* with sub_articles [/p/b.md], and one with [m.md] with sub_articles []
C12_Witness ==
    /\ Returned
    /\ Len(SubArticleDiagsOf(REL_MISSING)) = 2
    /\ \E i, j \in 1..Len(jobs) :
          /\ jobs[i].hasSub /\ jobs[i].sub_articles = <<SRC_B>>
          /\ jobs[j].hasSub /\ jobs[j].sub_articles = <<>>

\* the articles of a considered entry that exist on disk, the source file
\* standing for an absent list when it is itself an article
ResolvedArticlesOf(e) ==
    IF e.hasArticles
    THEN SelectSeq(e.articles, LAMBDA f : UnderSourceDir(f) \in Disk)
    ELSE IF SourceIsArticle THEN <<call.file>> ELSE <<>>

\* the considered entries with no resolved article, meca apart
ZeroArticleEntries ==
    SelectSeq(Considered, LAMBDA e : e.format # "meca" /\ ResolvedArticlesOf(e) = <<>>)

NoArticleDiags == SelectSeq(diags, LAMBDA d : d.what = "no-article")

\* C13: an entry with zero resolved articles is absent from the resolver's
\* result unless its format is meca, and one diagnostic is emitted for each
\* dropped entry exactly when force is not set
C13_ZeroArticlesDropped ==
    (Returned /\ Considered # <<>>) =>
        /\ Len(computed) = Len(Considered) - Len(ZeroArticleEntries)
        /\ \A j \in 1..Len(jobs) : jobs[j].format # "meca" => jobs[j].articles # <<>>
        /\ Len(NoArticleDiags) = IF opts.force THEN 0 ELSE Len(ZeroArticleEntries)

\* no entry is declared for the requested formats and force is set
ForcedDefault == Returned /\ opts.force /\ Considered = <<>> /\ Len(call.formats) > 0

\* C14: with no declared entry for the requested formats and force set, the
\* resolver prepares exactly one entry: its format is the first requested
\* format and its articles are [source file] when the source file's extension
\* is .ipynb, .md or .tex; that entry is the only job returned (it is returned
\* when getOutput accepts its path).  When the source file is not an article
\* the entry has no article and only a meca entry is kept
C14_ForcedDefaultJob ==
    ForcedDefault =>
        IF SourceIsArticle \/ call.formats[1] = "meca"
        THEN /\ Len(computed) = 1
             /\ computed[1].exp.format = call.formats[1]
             /\ computed[1].exp.articles = IF SourceIsArticle THEN <<call.file>> ELSE <<>>
             /\ computed[1].exp.output = <<>> /\ computed[1].exp.template = <<>>
             /\ ~computed[1].exp.hasSub
             /\ IF computed[1].output = <<>> THEN jobs = <<>>
                ELSE /\ Len(jobs) = 1
                     /\ jobs[1].format = call.formats[1]
                     /\ jobs[1].articles = computed[1].exp.articles
                     /\ jobs[1].output = computed[1].output
        ELSE computed = <<>> /\ jobs = <<>>

\* the forced default of a pdf invocation on an article
C14_Witness ==
    /\ ForcedDefault
    /\ call.formats = <<"pdf", "pdf+tex">>
    /\ Len(jobs) = 1 /\ jobs[1].format = "pdf" /\ jobs[1].articles = <<SRC_A>>

----------------------------------------------------------------------------
(* collectExportOptions: all source files, all requested formats *)

\* the format branches of the per-file task, in the order of the code
Branches ==
    << [fn |-> "word",  extension |-> EXT_DOCX, formats |-> <<"docx">>],
       [fn |-> "tex",   extension |-> EXT_PDF,  formats |-> <<"pdf", "pdf+tex">>],
       [fn |-> "tex",   extension |-> EXT_TEX,  formats |-> <<"tex">>],
       [fn |-> "tex",   extension |-> EXT_TYP,  formats |-> <<"typst">>],
       [fn |-> "basic", extension |-> EXT_XML,  formats |-> <<"xml">>],
       [fn |-> "basic", extension |-> EXT_MD,   formats |-> <<"md">>],
       [fn |-> "basic", extension |-> EXT_ZIP,  formats |-> <<"meca">>] >>

TaskDone == Len(Branches) + 1
TaskThrew == Len(Branches) + 2

\* if (formats.includes(...)) of branch b
BranchRequested(b) == \E i \in 1..Len(Branches[b].formats) : Branches[b].formats[i] \in requested

\* the first requested branch from b on; TaskDone when there is none
NextBranch(b) ==
    LET B == {x \in b..Len(Branches) : BranchRequested(x)}
    IN  IF B = {} THEN TaskDone ELSE CHOOSE x \in B : \A y \in B : x <= y

\* the awaited collect*ExportOptions call of branch b for `file`
InvokeBranch(b, file, projectPath, o) ==
    LET br == Branches[b]
    IN  IF br.fn = "word"
        THEN CollectWordExportOptions(file, br.extension, br.formats, projectPath, o)
        ELSE IF br.fn = "tex"
        THEN CollectTexExportOptions(file, br.extension, br.formats, projectPath, o)
        ELSE CollectBasicExportOptions(file, br.extension, br.formats, projectPath, o)

\* const sourceFiles = [...files]; if (configFile) sourceFiles.push(configFile)
SourceFiles == IF Truthy(opts.projectPath) THEN Append(files, CONFIG_FILE) ELSE files

\* { ...exportOptions, $file: file, $project: fileProjectPath }
WithFile(job, file, projectPath) == [file |-> file, project |-> projectPath] @@ job

\* mutant: the pushed jobs are made unique against the whole list
PushJobs_UniqueOverAll(list, fileJobs, file, projectPath) ==
    FilterAndMakeUnique(
        MapSeq(LAMBDA j : <<j>>,
               list \o MapSeq(LAMBDA j : WithFile(j, file, projectPath), fileJobs)))

\* exportOptionsList.push(...fileExportOptionsList.map(...))
PushJobs(list, fileJobs, file, projectPath) ==
    list \o MapSeq(LAMBDA j : WithFile(j, file, projectPath), fileJobs)

\* one or two source files; with a project, one file and the project's config file
InitBatch ==
    /\ IdleExtract /\ IdleTemplated /\ IdleMerge /\ IdleServer
    /\ files \in {<<SRC_A>>, <<SRC_A, SRC_B>>}
    /\ opts \in BatchOptsChoices
    /\ Truthy(opts.projectPath) => Len(files) = 1
    /\ frontmatter \in [{SourceFiles[i] : i \in 1..Len(SourceFiles)}
                           -> SeqsUpTo(BatchChoices, MaxBatchExports)]
    /\ requested \in {{"tex"}, {"docx", "tex"}}
    /\ api = "none"
    /\ pc = "ready"
    /\ call = NoCall
    /\ jobs = <<>>
    /\ computed = <<>>
    /\ diags = <<>>
    /\ taskNext = <<>>
    /\ taskList = <<>>
    /\ jobState = <<>>
    /\ scratch = <<>>
    /\ tempFolders = <<>>

\* collectExportOptions up to Promise.all: one task per source file is started
StartCollectExportOptions ==
    /\ api = "none" /\ pc = "ready"
    /\ api' = "collectExportOptions"
    /\ pc' = "collecting"
    /\ taskNext' = [i \in 1..Len(SourceFiles) |-> NextBranch(1)]
    /\ taskList' = [i \in 1..Len(SourceFiles) |-> <<>>]
    /\ UNCHANGED <<files, frontmatter, requested, opts, call, jobs, computed, diags,
                   jobState, scratch, tempFolders>>
    /\ UNCHANGED <<extractVars, templatedVars, mergeVars, serverVars>>

\* mutant: a throwing invocation is taken as an empty job list
FileBranch_SwallowThrow(i) ==
    /\ api = "collectExportOptions"
    /\ pc \in {"collecting", "threw"}
    /\ i \in 1..Len(taskNext)
    /\ taskNext[i] \notin {TaskDone, TaskThrew}
    /\ \E r \in {InvokeBranch(taskNext[i], SourceFiles[i], opts.projectPath, opts)} :
       LET next == NextBranch(taskNext[i] + 1)
           list == taskList[i] \o r.jobs
       IN  /\ call' = [fn |-> Branches[taskNext[i]].fn, file |-> SourceFiles[i],
                       extension |-> Branches[taskNext[i]].extension,
                       formats |-> Branches[taskNext[i]].formats]
           /\ computed' = r.computed
           /\ diags' = diags \o r.diags
           /\ taskNext' = [taskNext EXCEPT ![i] = next]
           /\ taskList' = [taskList EXCEPT ![i] = list]
           /\ jobs' = IF next = TaskDone
                      THEN PushJobs(jobs, list, SourceFiles[i], opts.projectPath)
                      ELSE jobs
           /\ pc' = pc
    /\ UNCHANGED <<files, frontmatter, requested, opts, api, jobState, scratch, tempFolders>>
    /\ UNCHANGED <<extractVars, templatedVars, mergeVars, serverVars>>

\* the task of source file i runs its next requested branch: the awaited
\* invocation returns and its jobs are appended to the file's list, or it
\* throws and Promise.all rejects; after the last branch the file's list is
\* pushed onto exportOptionsList
FileBranch(i) ==
    /\ api = "collectExportOptions"
    /\ pc \in {"collecting", "threw"}
    /\ i \in 1..Len(taskNext)
    /\ taskNext[i] \notin {TaskDone, TaskThrew}
    /\ \E r \in {InvokeBranch(taskNext[i], SourceFiles[i], opts.projectPath, opts)} :
       LET next == NextBranch(taskNext[i] + 1)
           list == taskList[i] \o r.jobs
       IN  /\ call' = [fn |-> Branches[taskNext[i]].fn, file |-> SourceFiles[i],
                       extension |-> Branches[taskNext[i]].extension,
                       formats |-> Branches[taskNext[i]].formats]
           /\ computed' = r.computed
           /\ diags' = diags \o r.diags
           /\ IF r.threw
              THEN /\ taskNext' = [taskNext EXCEPT ![i] = TaskThrew]
                   /\ pc' = "threw"
                   /\ UNCHANGED <<taskList, jobs>>
              ELSE /\ taskNext' = [taskNext EXCEPT ![i] = next]
                   /\ taskList' = [taskList EXCEPT ![i] = list]
                   /\ jobs' = IF next = TaskDone
                              THEN PushJobs(jobs, list, SourceFiles[i], opts.projectPath)
                              ELSE jobs
                   /\ pc' = pc
    /\ UNCHANGED <<files, frontmatter, requested, opts, api, jobState, scratch, tempFolders>>
    /\ UNCHANGED <<extractVars, templatedVars, mergeVars, serverVars>>

\* Promise.all resolves when every task has finished: return exportOptionsList
ReturnCollectExportOptions ==
    /\ api = "collectExportOptions"
    /\ pc = "collecting"
    /\ \A i \in 1..Len(taskNext) : taskNext[i] = TaskDone
    /\ pc' = "collected"
    /\ UNCHANGED <<files, frontmatter, requested, opts, api, call, jobs, computed, diags,
                   taskNext, taskList, jobState, scratch, tempFolders>>
    /\ UNCHANGED <<extractVars, templatedVars, mergeVars, serverVars>>

----------------------------------------------------------------------------
(* localArticleToTex: the jobs of one source file, run concurrently *)

DOT_TEX == <<".", "t", "e", "x">>
TMP_PREFIX == <<"/", "t", "m", "p", "/", "m">>

\* createTempFolder(session): a fresh folder for each call
CreateTempFolder(n) == TMP_PREFIX \o NumToStr(n)

NoScratch == [folder |-> <<>>, zipOutput |-> <<>>]

\* if (path.extname(exportOptions.output) === '.zip')
IsZipJob(job) == Extname(job.output) = DOT_ZIP

\* path.basename(zipOutput, path.extname(zipOutput))
BasenameNoExt(p) == Stem(Basename(p))

\* mutant: the render stays beside the archive
ZipRedirect_BesideArchive(job, n) ==
    [job EXCEPT !.output = PathJoin(Dirname(job.output), BasenameNoExt(job.output) \o DOT_TEX)]

\* runTexZipExport up to its first await: the temp folder is created and
\* exportOptions.output is redirected into it
ZipRedirect(job, n) ==
    [job EXCEPT !.output = PathJoin(CreateTempFolder(n), BasenameNoExt(job.output) \o DOT_TEX)]

\* localArticleToTex up to the await inside resolveAndLogErrors: the jobs are
\* resolved, or collectTexExportOptions throws; then every job's async callback
\* is started by exportOptionsList.map and runs to its first await
StartLocalArticleToTex ==
    /\ api = "none" /\ pc = "ready"
    /\ Len(files) = 1
    /\ api' = "localArticleToTex"
    /\ \E r \in {CollectTexExportOptions(files[1], EXT_TEX, <<"tex">>, opts.projectPath, opts)} :
           /\ call' = [fn |-> "tex", file |-> files[1], extension |-> EXT_TEX,
                       formats |-> <<"tex">>]
           /\ computed' = r.computed
           /\ diags' = diags \o r.diags
           /\ IF r.threw
              THEN /\ pc' = "threw"
                   /\ UNCHANGED <<jobs, jobState, scratch>>
              ELSE /\ pc' = "running"
                   /\ jobs' = [i \in 1..Len(r.jobs) |->
                                  IF IsZipJob(r.jobs[i]) THEN ZipRedirect(r.jobs[i], i)
                                  ELSE r.jobs[i]]
                   /\ scratch' = [i \in 1..Len(r.jobs) |->
                                  IF IsZipJob(r.jobs[i])
                                  THEN [folder |-> CreateTempFolder(i),
                                        zipOutput |-> r.jobs[i].output]
                                  ELSE NoScratch]
                   /\ jobState' = [i \in 1..Len(r.jobs) |-> "running"]
    /\ UNCHANGED <<files, frontmatter, requested, opts, taskNext, taskList, tempFolders>>
    /\ UNCHANGED <<extractVars, templatedVars, mergeVars, serverVars>>

\* exportResults.tempFolders of job i
JobTempFolders(i) == IF scratch[i].folder # <<>> THEN <<scratch[i].folder>> ELSE <<>>

\* job i's export returns: results.tempFolders.push(...exportResults.tempFolders)
JobSucceed(i) ==
    /\ api = "localArticleToTex" /\ pc = "running"
    /\ i \in 1..Len(jobState)
    /\ jobState[i] = "running"
    /\ jobState' = [jobState EXCEPT ![i] = "done"]
    /\ tempFolders' = tempFolders \o JobTempFolders(i)
    /\ UNCHANGED <<files, frontmatter, requested, opts, api, pc, call, jobs, computed,
                   diags, taskNext, taskList, scratch>>
    /\ UNCHANGED <<extractVars, templatedVars, mergeVars, serverVars>>

\* mutant: with throwOnFailure the first failure rejects the call at once
JobFail_FailFast(i) ==
    /\ api = "localArticleToTex" /\ pc = "running"
    /\ i \in 1..Len(jobState)
    /\ jobState[i] = "running"
    /\ jobState' = [jobState EXCEPT ![i] = "failed"]
    /\ diags' = Append(diags, FileError(files[1], "exportFailed", "job", jobs[i].output))
    /\ pc' = IF opts.throwOnFailure THEN "rejected" ELSE pc
    /\ UNCHANGED <<files, frontmatter, requested, opts, api, call, jobs, computed,
                   taskNext, taskList, scratch, tempFolders>>
    /\ UNCHANGED <<extractVars, templatedVars, mergeVars, serverVars>>

\* job i's export throws (renderer, template engine or file system): its
\* promise rejects, the push is not reached and the error is logged
JobFail(i) ==
    /\ api = "localArticleToTex" /\ pc = "running"
    /\ i \in 1..Len(jobState)
    /\ jobState[i] = "running"
    /\ jobState' = [jobState EXCEPT ![i] = "failed"]
    /\ diags' = Append(diags, FileError(files[1], "exportFailed", "job", jobs[i].output))
    /\ UNCHANGED <<files, frontmatter, requested, opts, api, pc, call, jobs, computed,
                   taskNext, taskList, scratch, tempFolders>>
    /\ UNCHANGED <<extractVars, templatedVars, mergeVars, serverVars>>

\* resolveAndLogErrors settles once every job has: it rethrows with
\* throwOnFailure when a job failed, and returns otherwise
FinishLocalArticleToTex ==
    /\ api = "localArticleToTex" /\ pc = "running"
    /\ \A i \in 1..Len(jobState) : jobState[i] # "running"
    /\ pc' = IF opts.throwOnFailure /\ \E i \in 1..Len(jobState) : jobState[i] = "failed"
             THEN "rejected" ELSE "finished"
    /\ UNCHANGED <<files, frontmatter, requested, opts, api, call, jobs, computed, diags,
                   taskNext, taskList, jobState, scratch, tempFolders>>
    /\ UNCHANGED <<extractVars, templatedVars, mergeVars, serverVars>>

NextBatch ==
    \/ StartCollectExportOptions
    \/ \E i \in 1..Len(taskNext) : FileBranch(i)
    \/ ReturnCollectExportOptions
    \/ StartLocalArticleToTex
    \/ \E i \in 1..Len(jobState) : JobSucceed(i)
    \/ \E i \in 1..Len(jobState) : JobFail(i)
    \/ FinishLocalArticleToTex

SpecBatch == InitBatch /\ [][NextBatch]_vars

\* most export entries of the source file localArticleToTex is called for
MaxJobs == 2

\* export entries of that source file: an unwrapped and a wrapped one
RunnerChoices ==
    { Entry("tex", OUT_A_TEX, <<>>, NoArticles, NoSub),
      Entry("tex", OUT_A_ZIP, <<>>, Arts(<<REL_B>>), NoSub) }

RunnerOptsChoices ==
    [filename : {<<>>},
     template : {<<>>},
     disableTemplate : {FALSE},
     force : {FALSE},
     zip : {FALSE},
     projectPath : {<<>>},
     throwOnFailure : BOOLEAN]

\* localArticleToTex is called for one source file
InitRunner ==
    /\ IdleExtract /\ IdleTemplated /\ IdleMerge /\ IdleServer
    /\ files = <<SRC_A>>
    /\ opts \in RunnerOptsChoices
    /\ frontmatter \in [{SRC_A} -> SeqsUpTo(RunnerChoices, MaxJobs)]
    /\ requested = {"tex"}
    /\ api = "none"
    /\ pc = "ready"
    /\ call = NoCall
    /\ jobs = <<>>
    /\ computed = <<>>
    /\ diags = <<>>
    /\ taskNext = <<>>
    /\ taskList = <<>>
    /\ jobState = <<>>
    /\ scratch = <<>>
    /\ tempFolders = <<>>

NextRunner ==
    \/ StartLocalArticleToTex
    \/ \E i \in 1..Len(jobState) : JobSucceed(i)
    \/ \E i \in 1..Len(jobState) : JobFail(i)
    \/ FinishLocalArticleToTex

SpecRunner == InitRunner /\ [][NextRunner]_vars

----------------------------------------------------------------------------
(* Properties of a batch *)

Collected == api = "collectExportOptions" /\ pc = "collected"

\* C2 as stated: no two jobs of the list collectExportOptions returns have
\* the same output path
C2_BatchDistinctOutputs ==
    Collected => \A i, j \in 1..Len(jobs) : i # j => jobs[i].output # jobs[j].output

\* the jobs of the requested branches of source file i, each invocation taken alone
StandAlone(i) ==
    Flatten([b \in 1..Len(Branches) |->
                IF BranchRequested(b)
                THEN InvokeBranch(b, SourceFiles[i], opts.projectPath, opts).jobs
                ELSE <<>>])

\* C2 amended: paths are made unique inside each resolver invocation only;
\* the returned list holds, for every source file, the job lists of its
\* invocations one after the other with the output paths those invocations
\* gave, so jobs of different invocations may share an output path
C2_UniquePerInvocationOnly ==
    Collected =>
        \A i \in 1..Len(SourceFiles) :
            SelectSeq(jobs, LAMBDA j : j.file = SourceFiles[i])
                = MapSeq(LAMBDA j : WithFile(j, SourceFiles[i], opts.projectPath),
                         StandAlone(i))

C2_Witness ==
    /\ Collected
    /\ \E i, j \in 1..Len(jobs) :
          jobs[i].file # jobs[j].file /\ jobs[i].output = jobs[j].output

TasksSettled == \A i \in 1..Len(taskNext) : taskNext[i] \in {TaskDone, TaskThrew}

\* C7 as stated: conflicting template options abort only the job concerned;
\* collectExportOptions still returns the other jobs and localArticleToTex
\* still runs
C7_ConflictSparesOtherJobs ==
    TemplateConflict =>
        /\ (api = "collectExportOptions" /\ pc # "ready" /\ TasksSettled) => pc = "collected"
        /\ api = "localArticleToTex" => pc # "threw"

\* C7 amended: conflicting template options reject the whole call:
\* collectExportOptions with the tex format requested never returns a job
\* list, whatever other jobs its invocations resolved, and localArticleToTex
\* rejects before any of its jobs is started
C7_ConflictAbortsBatch ==
    TemplateConflict =>
        /\ (api = "collectExportOptions" /\ "tex" \in requested) =>
              /\ pc \in {"collecting", "threw"}
              /\ TasksSettled => pc = "threw"
        /\ api = "localArticleToTex" =>
              /\ pc = "threw"
              /\ jobState = <<>>
              /\ tempFolders = <<>>

C7_Witness ==
    /\ TemplateConflict
    /\ api = "collectExportOptions" /\ pc = "threw" /\ TasksSettled
    /\ \E i \in 1..Len(taskList) : Len(taskList[i]) > 0

\* the last resolver invocation was collectTexExportOptions for a format that
\* supports archive wrapping, and it returned
WrappingCall == call.fn = "tex" /\ call.extension \in {EXT_TEX, EXT_TYP} /\ pc # "threw"

\* zip is requested, or the override filename (else the declared output) ends with '.zip'
WrapRequested(exp) ==
    \/ opts.zip
    \/ EndsWith(IF Truthy(opts.filename) THEN opts.filename ELSE exp.output, DOT_ZIP)

\* the path chosen for an entry before a default file name is appended
ChosenPath(exp) == ChooseOutput(call.file, exp, opts.filename, call.formats, opts.projectPath)

Running == api = "localArticleToTex" /\ pc \in {"running", "finished", "rejected"}

\* C11 as stated: whenever zip is requested or the path ends with '.zip', the
\* job of a tex or typ resolver invocation is retained with a '.zip' output,
\* also when the override filename or the declared output ends with '.tex'
C11_WrappedWheneverRequested ==
    WrappingCall =>
        \A k \in 1..Len(computed) :
            WrapRequested(computed[k].exp) => EndsWith(computed[k].output, DOT_ZIP)

\* C11 amended: when zip is requested or the override filename (else the
\* declared output) ends with '.zip', the expected extension of the entry is
\* 'zip': the entry is retained, with a '.zip' output, exactly when its chosen
\* path ends with '.zip' or has no extension (then '<basename>.zip' is
\* appended); a chosen path with another extension, '.tex' included, is
\* rejected with an extension error.  localArticleToTex renders a retained
\* '.zip' job to '<temp folder>/<basename>.tex' and keeps the '.zip' path as
\* the archive's path; the other jobs get no temp folder and keep a '.tex' path
C11_WrappedIffZipPath ==
    /\ WrappingCall =>
          \A k \in 1..Len(computed) :
              WrapRequested(computed[k].exp) =>
                  LET chosen == ChosenPath(computed[k].exp)
                  IN  /\ computed[k].output # <<>> <=>
                             (EndsWith(chosen, DOT_ZIP) \/ Extname(chosen) = <<>>)
                      /\ computed[k].output # <<>> => EndsWith(computed[k].output, DOT_ZIP)
                      /\ computed[k].output = <<>> =>
                             \E n \in 1..Len(diags) :
                                 /\ diags[n].rule = RULE_EXTENSION_CORRECT
                                 /\ diags[n].subject = chosen
    /\ Running =>
          /\ Len(jobs) = Len(Kept)
          /\ \A j \in 1..Len(jobs) :
                IF WrapRequested(Kept[j].exp)
                THEN /\ EndsWith(scratch[j].zipOutput, DOT_ZIP)
                     /\ Stem(scratch[j].zipOutput) \in
                            {Stem(Kept[j].output)} \cup
                            {Stem(Kept[j].output) \o <<"_">> \o NumToStr(n) : n \in 0..Len(jobs)}
                     /\ jobs[j].output = scratch[j].folder \o <<"/">>
                                            \o Stem(Basename(scratch[j].zipOutput)) \o DOT_TEX
                     /\ scratch[j].folder # <<>>
                ELSE /\ scratch[j] = NoScratch
                     /\ EndsWith(jobs[j].output, DOT_TEX)

\* zip is requested and the override filename has no extension: the job is
\* retained as '<filename>/<basename>.zip' and rendered to a '.tex' file in
\* its temp folder
C11_Witness ==
    /\ Running
    /\ opts.zip /\ opts.filename = FILENAME_DIR
    /\ \E j \in 1..Len(jobs) :
          /\ scratch[j].zipOutput = FILENAME_DIR \o <<"/">> \o Stem(Basename(Kept[j].exp.articles[1]))
                                        \o DOT_ZIP
          /\ jobs[j].output = scratch[j].folder \o <<"/">>
                                 \o Stem(Basename(Kept[j].exp.articles[1])) \o DOT_TEX

----------------------------------------------------------------------------
(* extractTaggedContent: extraction of the blocks that carry a tag *)

\* longest list of children of the root of a tree
MaxNodes == 3

\* separator of the matched blocks' texts: a blank line
BLANK_LINE == <<"\n", "\n">>

TEXT_UNTAGGED ==
    <<"u", "n", "t", "a", "g", "g", "e", "d", " ", "c", "o", "n", "t", "e",
      "n", "t">>
TEXT_TAGGED ==
    <<"t", "a", "g", "g", "e", "d", " ", "c", "o", "n", "t", "e", "n", "t">>
TEXT_ALSO_TAGGED ==
    <<"a", "l", "s", "o", " ", "t", "a", "g", "g", "e", "d", " ", "c", "o",
      "n", "t", "e", "n", "t">>

TextNode(value) == [type |-> "text", tags |-> <<>>, children |-> <<>>, value |-> value]

\* { type: 'block', data: { tags }, children }
Block(tags, children) ==
    [type |-> "block", tags |-> tags, children |-> children, value |-> <<>>]

\* children the root of a tree may have
NodeChoices ==
    { TextNode(TEXT_UNTAGGED),
      Block(<<"other_tag">>, <<TextNode(TEXT_UNTAGGED)>>),
      Block(<<"test_tag">>, <<TextNode(TEXT_TAGGED)>>),
      Block(<<"other_tag", "test_tag">>, <<TextNode(TEXT_ALSO_TAGGED)>>),
      Block(<<"test_tag">>, <<>>) }

\* an absent limit is the empty sequence
NoLimit == <<>>

\* { id, required, max_chars, max_words }
TagDefinitionChoices ==
    [id : {"test_tag"},
     max_chars : {NoLimit, <<5>>, <<1000>>},
     max_words : {NoLimit, <<1>>, <<100>>}]

\* the tree of "tagged content removed from tree and returned"
TEST_TREE ==
    << Block(<<"other_tag">>, <<TextNode(TEXT_UNTAGGED)>>),
       Block(<<"test_tag">>, <<TextNode(TEXT_TAGGED)>>),
       Block(<<"other_tag", "test_tag">>, <<TextNode(TEXT_ALSO_TAGGED)>>) >>

\* the return value undefined
Undefined == [defined |-> FALSE, value |-> <<>>, imports |-> <<>>, commands |-> <<>>]

\* { value, imports: [], commands: [] }
TaggedResult(value) ==
    [defined |-> TRUE, value |-> value, imports |-> <<>>, commands |-> <<>>]

\* a block-level node carrying the tag
HasTag(node, id) == node.type = "block" /\ Includes(node.tags, id)

\* the text of a block: the values of its text children
BlockText(node) == Flatten(MapSeq(LAMBDA c : c.value, node.children))

\* Array.prototype.join('\n\n')
RECURSIVE JoinBlankLine(_)
JoinBlankLine(texts) ==
    IF texts = <<>> THEN <<>>
    ELSE IF Len(texts) = 1 THEN texts[1]
    ELSE texts[1] \o BLANK_LINE \o JoinBlankLine(Tail(texts))

\* mutant: the value is cut at max_chars letters
TaggedValue_Truncated(matched, def) ==
    LET full == JoinBlankLine(MapSeq(BlockText, matched))
    IN  IF def.max_chars # NoLimit /\ Len(full) > def.max_chars[1]
        THEN SubSeq(full, 1, def.max_chars[1])
        ELSE full

\* the texts of the matched blocks, joined by a blank line; max_chars and
\* max_words of the definition are not read
TaggedValue(matched, def) == JoinBlankLine(MapSeq(BlockText, matched))

\* mutant: the matched blocks keep their children
EmptyTagged_KeepChildren(t, def) == t

\* the matched blocks are emptied in place
EmptyTagged(t, def) ==
    [i \in 1..Len(t) |-> IF HasTag(t[i], def.id) THEN [t[i] EXCEPT !.children = <<>>]
                         ELSE t[i]]

\* extractTaggedContent(tree, tagDefinition, frontmatter)
ExtractTaggedContent(t, def) ==
    LET matched == SelectSeq(t, LAMBDA n : HasTag(n, def.id))
    IN  IF matched = <<>> THEN [result |-> Undefined, tree |-> t]
        ELSE [result |-> TaggedResult(TaggedValue(matched, def)),
              tree |-> EmptyTagged(t, def)]

\* no resolver call is made
IdleResolver ==
    /\ files = <<>>
    /\ frontmatter = <<>>
    /\ requested = {}
    /\ opts = <<>>
    /\ call = NoCall
    /\ jobs = <<>>
    /\ computed = <<>>
    /\ diags = <<>>
    /\ taskNext = <<>>
    /\ taskList = <<>>
    /\ jobState = <<>>
    /\ scratch = <<>>
    /\ tempFolders = <<>>

InitTagged ==
    /\ IdleResolver /\ IdleTemplated /\ IdleMerge /\ IdleServer
    /\ api = "extractTaggedContent"
    /\ pc = "ready"
    /\ tree \in SeqsUpTo(NodeChoices, MaxNodes)
    /\ treeBefore = tree
    /\ tagDefinition \in TagDefinitionChoices
    /\ tagged = Undefined
    /\ mdast = <<>>
    /\ partDefinition = <<>>
    /\ fragments = <<>>

CallExtractTaggedContent ==
    /\ api = "extractTaggedContent"
    /\ pc = "ready"
    /\ \E r \in {ExtractTaggedContent(tree, tagDefinition)} :
          /\ tree' = r.tree
          /\ tagged' = r.result
    /\ pc' = "returned"
    /\ UNCHANGED <<files, frontmatter, requested, opts, api, call, jobs, computed, diags,
                   taskNext, taskList, jobState, scratch, tempFolders>>
    /\ UNCHANGED <<treeBefore, tagDefinition, mdast, partDefinition, fragments>>
    /\ UNCHANGED <<templatedVars, mergeVars, serverVars>>

NextTagged == CallExtractTaggedContent

SpecTagged == InitTagged /\ [][NextTagged]_vars

----------------------------------------------------------------------------
(* Properties of extractTaggedContent *)

\* positions of the blocks that carried the tag when the call started
TaggedBefore ==
    {i \in 1..Len(treeBefore) :
        /\ treeBefore[i].type = "block"
        /\ \E n \in 1..Len(treeBefore[i].tags) : treeBefore[i].tags[n] = tagDefinition.id}

\* the letters of the text children of node i of the tree given to the call
TextBefore(i) ==
    LET c == treeBefore[i].children
    IN  IF c = <<>> THEN <<>> ELSE c[1].value

\* the texts of the tagged blocks from position i on, a blank line between them
RECURSIVE TaggedTextFrom(_)
TaggedTextFrom(i) ==
    IF i > Len(treeBefore) THEN <<>>
    ELSE IF i \notin TaggedBefore THEN TaggedTextFrom(i + 1)
    ELSE IF \E k \in TaggedBefore : k > i
         THEN TextBefore(i) \o <<"\n", "\n">> \o TaggedTextFrom(i + 1)
         ELSE TextBefore(i)

\* C15: every block carrying the tag has its children emptied in place, every
\* other node is left as it was, and the value returned is the text of the
\* tagged blocks in document order joined by a blank line; when no block
\* carries the tag the result is undefined and the tree is not changed
C15_TaggedContentExtracted ==
    (api = "extractTaggedContent" /\ pc = "returned") =>
        /\ Len(tree) = Len(treeBefore)
        /\ \A i \in 1..Len(tree) :
              IF i \in TaggedBefore
              THEN tree[i] = [treeBefore[i] EXCEPT !.children = <<>>]
              ELSE tree[i] = treeBefore[i]
        /\ IF TaggedBefore = {}
           THEN ~tagged.defined /\ tree = treeBefore
           ELSE tagged.defined /\ tagged.value = TaggedTextFrom(1)

\* the test "tagged content removed from tree and returned"
C15_Witness ==
    /\ api = "extractTaggedContent" /\ pc = "returned"
    /\ treeBefore = TEST_TREE
    /\ tagged = TaggedResult(TEXT_TAGGED \o <<"\n", "\n">> \o TEXT_ALSO_TAGGED)
    /\ tree = << Block(<<"other_tag">>, <<TextNode(TEXT_UNTAGGED)>>),
                 Block(<<"test_tag">>, <<>>),
                 Block(<<"other_tag", "test_tag">>, <<>>) >>

\* a limit of the tag definition that the extracted value exceeds
LimitExceeded ==
    \/ tagDefinition.max_chars # <<>> /\ Len(TaggedTextFrom(1)) > tagDefinition.max_chars[1]
    \/ tagDefinition.max_words # <<>>
          /\ Cardinality({n \in 1..Len(TaggedTextFrom(1)) : TaggedTextFrom(1)[n] \in {" ", "\n"}})
                >= tagDefinition.max_words[1]

\* C16: max_chars and max_words of the tag definition are not enforced: with
\* any limit the value returned is the full text of the tagged blocks, the
\* value returned without a limit; it is neither cut nor rejected
C16_LimitsNotEnforced ==
    (api = "extractTaggedContent" /\ pc = "returned" /\ TaggedBefore # {}) =>
        /\ tagged.defined
        /\ tagged.value = TaggedTextFrom(1)
        /\ tagged = ExtractTaggedContent(treeBefore,
                        [tagDefinition EXCEPT !.max_chars = <<>>, !.max_words = <<>>]).result

\* the test "exceeding max chars passes": max_chars 5 on the 14 letters of
\* 'tagged content'
C16_Witness ==
    /\ api = "extractTaggedContent" /\ pc = "returned"
    /\ treeBefore = <<Block(<<"test_tag">>, <<TextNode(TEXT_TAGGED)>>)>>
    /\ tagDefinition.max_chars = <<5>>
    /\ LimitExceeded
    /\ Len(tagged.value) = 14 /\ tagged.value = TEXT_TAGGED

----------------------------------------------------------------------------
(* extractTexPart: a template part of an article, rendered *)

\* longest list of blocks of a part
MaxBlocks == 2

\* a node of the tree: type, children and, for a text node, its letters
Node(type, children) == [type |-> type, children |-> children, value |-> <<>>]
Text(letters) == [type |-> "text", children |-> <<>>, value |-> letters]

Paragraph(letters) == Node("paragraph", <<Text(letters)>>)
ListItem(children) == Node("listItem", children)
List(items) == Node("list", items)

\* lists a block of a part may hold: items a, b; item a with a nested list
\* of one item c, then item b; one item a
LIST_AB == List(<<ListItem(<<Paragraph(<<"a">>)>>), ListItem(<<Paragraph(<<"b">>)>>)>>)
LIST_NESTED ==
    List(<<ListItem(<<Paragraph(<<"a">>), List(<<ListItem(<<Paragraph(<<"c">>)>>)>>)>>),
           ListItem(<<Paragraph(<<"b">>)>>)>>)
LIST_A == List(<<ListItem(<<Paragraph(<<"a">>)>>)>>)

\* the blocks a part may be made of
PartBlockChoices ==
    { Node("block", <<LIST_AB>>),
      Node("block", <<LIST_NESTED>>),
      Node("block", <<LIST_A>>),
      Node("block", <<Paragraph(<<"p">>)>>),
      Node("block", <<Paragraph(<<"p">>), Paragraph(<<"q">>)>>),
      Node("block", <<LIST_A, Paragraph(<<"q">>)>>) }

PART_ID == "abstract"

\* what an article's tree holds for the part ids: nothing, or the blocks
\* tagged with the id
NoPart == [present |-> FALSE, blocks |-> <<>>]
PartOf(blocks) == [present |-> TRUE, blocks |-> blocks]

\* extractPart(mdast, id): a root over the blocks tagged with the id, or
\* undefined ('' here) when no block is
ExtractPart(article, id) ==
    IF article[id].present THEN <<Node("root", article[id].blocks)>> ELSE <<>>

\* the letters the renderer prints for a tree, in document order
RECURSIVE RenderTex(_)
RenderTex(node) ==
    IF node.type = "text" THEN node.value
    ELSE Flatten([i \in 1..Len(node.children) |-> RenderTex(node.children[i])])

\* mdastToTex(session, mdast, references, frontmatter, templateYml, printGlossaries)
MdastToTex(article, printGlossaries) ==
    [value |-> RenderTex(article), printGlossaries |-> printGlossaries]

\* selectAll(type, node): the nodes of that type under node, in document order
RECURSIVE SelectAll(_, _)
SelectAll(type, node) ==
    (IF node.type = type THEN <<node>> ELSE <<>>)
        \o Flatten([i \in 1..Len(node.children) |-> SelectAll(type, node.children[i])])

\* part.children.length === 1 && part.children[0]?.children?.length === 1 &&
\* part.children[0].children[0].type === 'list'
IsSingleList(part) ==
    /\ Len(part.children) = 1
    /\ Len(part.children[1].children) = 1
    /\ part.children[1].children[1].type = "list"

\* the value extractTexPart returns: undefined, one LatexResult, or a list
NoFragments == [defined |-> FALSE, isArray |-> FALSE, items |-> <<>>]
OneFragment(r) == [defined |-> TRUE, isArray |-> FALSE, items |-> <<r>>]
FragmentList(rs) == [defined |-> TRUE, isArray |-> TRUE, items |-> rs]

ExtractTexPart(article, def) ==
    LET extracted == ExtractPart(article, def.id)
        part == extracted[1]
    IN  IF extracted = <<>> THEN NoFragments
        ELSE IF ~def.as_list THEN OneFragment(MdastToTex(part, FALSE))
        ELSE IF IsSingleList(part)
        THEN FragmentList(MapSeq(LAMBDA item : MdastToTex(Node("root", item.children), FALSE),
                                 SelectAll("listItem", part)))
        ELSE FragmentList(MapSeq(LAMBDA block : MdastToTex(Node("root", <<block>>), FALSE),
                                 part.children))

InitPart ==
    /\ IdleResolver /\ IdleTemplated /\ IdleMerge /\ IdleServer
    /\ api = "extractTexPart"
    /\ pc = "ready"
    /\ tree = <<>>
    /\ treeBefore = <<>>
    /\ tagDefinition = <<>>
    /\ tagged = <<>>
    /\ \E p \in {NoPart} \cup {PartOf(b) : b \in SeqsUpTo(PartBlockChoices, MaxBlocks)} :
          mdast = [id \in {PART_ID} |-> p]
    /\ partDefinition \in [id : {PART_ID}, as_list : BOOLEAN]
    /\ fragments = NoFragments

CallExtractTexPart ==
    /\ api = "extractTexPart"
    /\ pc = "ready"
    /\ fragments' = ExtractTexPart(mdast, partDefinition)
    /\ pc' = "returned"
    /\ UNCHANGED <<files, frontmatter, requested, opts, api, call, jobs, computed, diags,
                   taskNext, taskList, jobState, scratch, tempFolders>>
    /\ UNCHANGED <<tree, treeBefore, tagDefinition, tagged, mdast, partDefinition>>
    /\ UNCHANGED <<templatedVars, mergeVars, serverVars>>

NextPart == CallExtractTexPart

SpecPart == InitPart /\ [][NextPart]_vars

----------------------------------------------------------------------------
(* Properties of extractTexPart *)

PartBlocks == mdast[partDefinition.id].blocks

\* the part is one block holding one list
ListShaped ==
    /\ Len(PartBlocks) = 1
    /\ Len(PartBlocks[1].children) = 1
    /\ PartBlocks[1].children[1].type = "list"

\* C17: with as_list, a part that is one wrapper holding one wrapper holding a
\* single list of k items yields k fragments, also when items hold nested
\* lists; a part of another shape with m top-level blocks yields m fragments;
\* a part whose tag is absent yields undefined
C17_FragmentCounts ==
    (api = "extractTexPart" /\ pc = "returned" /\ partDefinition.as_list) =>
        IF ~mdast[partDefinition.id].present THEN ~fragments.defined
        ELSE /\ fragments.defined /\ fragments.isArray
             /\ Len(fragments.items) =
                   IF ListShaped THEN Len(PartBlocks[1].children[1].children)
                   ELSE Len(PartBlocks)

----------------------------------------------------------------------------
(* Side data: mergeTexTemplateImports (jtex) and mergePreambles (myst-to-tex) *)

\* [...new Set([...imports])]: each import once, at its first occurrence
RECURSIVE Dedup(_)
Dedup(list) ==
    IF list = <<>> THEN <<>>
    ELSE LET front == Dedup(SubSeq(list, 1, Len(list) - 1))
             last == list[Len(list)]
         IN  IF Includes(front, last) THEN front ELSE Append(front, last)

\* { ...current, ...next }: union by key, the later value overwrites
MergeMapping(current, next) ==
    [k \in DOMAIN current \cup DOMAIN next |->
        IF k \in DOMAIN next THEN next[k] ELSE current[k]]

\* the imports of current, then those of next that are new
MergeImports(current, next) == Dedup(current \o next)

\* mergeTexTemplateImports(current, next): it is given no diagnostic callback
MergeTexTemplateImports(current, next) ==
    [imports |-> MergeImports(current.imports, next.imports),
     commands |-> MergeMapping(current.commands, next.commands)]

\* the message of the callback for an overwritten key of a mapping
DuplicateWarning(mapping, key) == [mapping |-> mapping, key |-> key]

\* the keys of next, in a fixed order
RECURSIVE KeysOf(_)
KeysOf(keys) ==
    IF keys = {} THEN <<>>
    ELSE LET k == CHOOSE x \in keys : TRUE
         IN  Append(KeysOf(keys \ {k}), k)

\* one call of the callback for every key of next that current has too
OverwriteWarnings(mapping, current, next) ==
    MapSeq(LAMBDA k : DuplicateWarning(mapping, k),
           KeysOf(DOMAIN current \cap DOMAIN next))

\* mergePreambles(current, next, warningLogFn): the merged data and the
\* messages given to warningLogFn
MergePreambles(current, next) ==
    [data |-> [hasProofs |-> current.hasProofs \/ next.hasProofs,
               printGlossaries |-> current.printGlossaries \/ next.printGlossaries,
               glossary |-> MergeMapping(current.glossary, next.glossary),
               abbreviations |-> MergeMapping(current.abbreviations, next.abbreviations)],
     warnings |-> OverwriteWarnings("glossary", current.glossary, next.glossary)
                    \o OverwriteWarnings("abbreviations", current.abbreviations,
                                         next.abbreviations)]

\* let collectedImports = { imports: [], commands: {} }
EmptyImports == [imports |-> <<>>, commands |-> <<>>]

\* let preambleData = { hasProofs: false, printGlossaries: false, glossary: {}, abbreviations: {} }
EmptyPreamble ==
    [hasProofs |-> FALSE, printGlossaries |-> FALSE, glossary |-> <<>>, abbreviations |-> <<>>]

----------------------------------------------------------------------------
(* localArticleToTexTemplated: one templated job over its articles *)

\* most articles of a job
MaxArticles == 2

ARTICLE_DIR == <<"/", "p", "/", "s">>
DOT_MD == <<".", "m", "d">>

\* the job's articles: /p/s1.md, /p/s2.md, ...
ArticlePath(i) == ARTICLE_DIR \o NumToStr(i) \o DOT_MD

\* the job's output
TEMPLATED_OUTPUT == <<"/", "o", "/", "m", ".", "t", "e", "x">>

RULE_TEX_RENDERS == "texRenders"

INCLUDE_OPEN == <<"\\", "i", "n", "c", "l", "u", "d", "e", "{">>
SECTION_OPEN == <<"\\", "s", "e", "c", "t", "i", "o", "n", "{">>
BRACE_CLOSE == <<"}">>
NEWLINE == <<"\n">>
PRINT_GLOSSARIES == <<"\\", "p", "r", "i", "n", "t", "g", "l", "o", "s", "s", "a", "r", "i", "e", "s">>

\* a mapping with one key
OneKey(key, value) == [k \in {key} |-> value]

Preamble(hasProofs, printGlossaries, glossary) ==
    [hasProofs |-> hasProofs, printGlossaries |-> printGlossaries,
     glossary |-> glossary, abbreviations |-> <<>>]

\* what getFileContent loads for an article: its tree (the part tagged in
\* it, the letters of its body and whether it holds a glossary node), its
\* front matter and slug, and the side data the renderer yields for the body
Content(part, body, imports, commands, preamble, glossaryNode, title, slug) ==
    [mdast |-> [id \in {PART_ID} |-> part], body |-> body,
     imports |-> imports, commands |-> commands, preamble |-> preamble,
     glossaryNode |-> glossaryNode,
     title |-> title, content_includes_title |-> FALSE, slug |-> slug]

PART_X == PartOf(<<Node("block", <<Paragraph(<<"x">>)>>)>>)
PART_Y == PartOf(<<Node("block", <<Paragraph(<<"y">>)>>)>>)
PART_EMPTY == PartOf(<<Node("block", <<Paragraph(<<>>)>>)>>)

\* the articles a job may have
ContentChoices ==
    { Content(NoPart, <<"A">>, <<>>, <<>>, Preamble(FALSE, FALSE, <<>>), FALSE, <<>>, <<>>),
      Content(PART_X, <<"B">>, <<"i">>, OneKey("a", 1), Preamble(TRUE, FALSE, OneKey("g", 1)),
              FALSE, <<"T">>, <<"s">>),
      Content(PART_Y, <<"C">>, <<"j", "i">>, OneKey("a", 2), Preamble(FALSE, TRUE, OneKey("g", 2)),
              TRUE, <<>>, <<>>),
      Content(PART_EMPTY, <<"D">>, <<"j">>, OneKey("b", 1), Preamble(FALSE, FALSE, <<>>),
              FALSE, <<"U">>, <<>>) }

\* parts[id] is not set
NoValue == [isSet |-> FALSE, isArray |-> FALSE, value |-> <<>>]

\* parts[def.id] = part.map(({ value }) => value)
ArrayValue(items) ==
    [isSet |-> TRUE, isArray |-> TRUE, value |-> MapSeq(LAMBDA r : r.value, items)]

\* parts[def.id] = part?.value ?? ''
StringValue(r) == [isSet |-> TRUE, isArray |-> FALSE, value |-> r.value]

\* truthiness of parts[def.id]: an array is truthy, a string unless it is ''
TruthyPart(v) == v.isSet /\ (v.isArray \/ v.value # <<>>)

\* addWarningForFile(session, file, message, level, { ruleId: RuleId.texRenders })
TexDiag(file, level, what, subject) ==
    [file |-> file, level |-> level, rule |-> RULE_TEX_RENDERS, what |-> what,
     subject |-> subject]

\* the result of mdastToTex for the body of an article
BodyResult(c) ==
    [value |-> c.body, imports |-> c.imports, commands |-> c.commands, preamble |-> c.preamble]

\* the fragments of a part carry no import and no command
FragmentSideData(r) == [imports |-> <<>>, commands |-> <<>>]

RECURSIVE MergeAllImports(_, _)
MergeAllImports(collected, results) ==
    IF results = <<>> THEN collected
    ELSE MergeAllImports(MergeTexTemplateImports(collected, FragmentSideData(Head(results))),
                         Tail(results))

\* the callback of partDefinitions.forEach for one definition
PartStep(def, article, part, current, collected) ==
    IF part.defined /\ TruthyPart(current)
    THEN [value |-> current, imports |-> collected,
          diags |-> <<TexDiag(SRC_A, "error", "multiple-part", <<def.id, article>>)>>]
    ELSE IF part.defined
    THEN [value |-> IF part.isArray THEN ArrayValue(part.items) ELSE StringValue(part.items[1]),
          imports |-> MergeAllImports(collected, part.items),
          diags |-> <<>>]
    ELSE [value |-> current, imports |-> collected, diags |-> <<>>]

\* hasGlossary(mdast)
HasGlossary(c) == c.glossaryNode

\* generatePreamble(preambleData).suffix
PreambleSuffix(data) == IF data.printGlossaries THEN PRINT_GLOSSARIES ELSE <<>>

InitTemplated ==
    /\ IdleMerge /\ IdleServer
    /\ tree = <<>>
    /\ treeBefore = <<>>
    /\ tagDefinition = <<>>
    /\ tagged = <<>>
    /\ mdast = <<>>
    /\ fragments = <<>>
    /\ files = <<SRC_A>>
    /\ frontmatter = <<>>
    /\ requested = {}
    /\ opts = <<>>
    /\ api = "localArticleToTexTemplated"
    /\ pc = "finalizing"
    /\ call = NoCall
    /\ \E n \in 1..MaxArticles :
          /\ content \in [1..n -> ContentChoices]
          /\ articleState = [i \in 1..n |-> "finalizing"]
          /\ jobs = <<[format |-> "tex", output |-> TEMPLATED_OUTPUT, templateNull |-> FALSE,
                       template |-> <<>>, hasArticles |-> TRUE,
                       articles |-> [i \in 1..n |-> ArticlePath(i)],
                       hasSub |-> FALSE, sub_articles |-> <<>>]>>
    /\ partDefinition \in [id : {PART_ID}, as_list : BOOLEAN]
    /\ computed = <<>>
    /\ diags = <<>>
    /\ taskNext = <<>>
    /\ taskList = <<>>
    /\ jobState = <<>>
    /\ scratch = <<>>
    /\ tempFolders = <<>>
    /\ parts = [id \in {PART_ID} |-> NoValue]
    /\ collectedImports = EmptyImports
    /\ preambleData = EmptyPreamble
    /\ hasGlossaries = FALSE
    /\ written = <<>>
    /\ renderCalls = <<>>
    /\ exportResults = <<>>

\* the mdastToTex calls of article i's callback, in order: the fragments of
\* the part, then the body with printGlossaries true
TemplatedRenderCalls(i) ==
    MapSeq(LAMBDA r : [of |-> "part", printGlossaries |-> r.printGlossaries],
           ExtractTexPart(content[i].mdast, partDefinition).items)
        \o <<[of |-> "body", printGlossaries |-> TRUE]>>

\* an ExportResults value; hasGlossaries is <<>> when the field is not set
ExportResults(folders, glossaryFlag) ==
    [tempFolders |-> folders, hasGlossaries |-> glossaryFlag]

\* finalizeMdast of article i resolves: the rest of its callback runs without
\* interruption, the part definitions first, then the body
FinalizeArticle(i) ==
    /\ api = "localArticleToTexTemplated" /\ pc = "finalizing"
    /\ i \in 1..Len(articleState)
    /\ articleState[i] = "finalizing"
    /\ \E step \in {PartStep(partDefinition, jobs[1].articles[i],
                              ExtractTexPart(content[i].mdast, partDefinition),
                              parts[partDefinition.id], collectedImports)} :
       \E merge \in {MergePreambles(preambleData, BodyResult(content[i]).preamble)} :
          /\ parts' = [parts EXCEPT ![partDefinition.id] = step.value]
          /\ collectedImports' = MergeTexTemplateImports(step.imports, BodyResult(content[i]))
          /\ preambleData' = merge.data
          /\ diags' = diags \o step.diags
                         \o MapSeq(LAMBDA w : TexDiag(SRC_A, "warn", "duplicate", w),
                                   merge.warnings)
    /\ hasGlossaries' = (hasGlossaries \/ HasGlossary(content[i]))
    /\ articleState' = [articleState EXCEPT ![i] = "done"]
    /\ renderCalls' = renderCalls \o TemplatedRenderCalls(i)
    /\ UNCHANGED <<files, frontmatter, requested, opts, api, pc, call, jobs, computed,
                   taskNext, taskList, jobState, scratch, tempFolders>>
    /\ UNCHANGED <<extractVars, content, written, exportResults, mergeVars, serverVars>>

\* mutant: the include files are named by index only
IncludeFilename_IndexOnly(output, c, i) ==
    PathParse(output).name \o <<"-">> \o NumToStr(i - 1)

\* `${name}-${content[ind]?.slug ?? ind}`, ind counting from 0
IncludeFilename(output, c, i) ==
    PathParse(output).name \o <<"-">> \o (IF c.slug # <<>> THEN c.slug ELSE NumToStr(i - 1))

\* the include file of article i: path and content
IncludeFile(output, c, i) ==
    LET p == PathParse(output)
    IN  [path |-> PathJoin(p.dir, IncludeFilename(output, c, i) \o p.ext),
         content |-> (IF c.title # <<>> /\ ~c.content_includes_title
                      THEN SECTION_OPEN \o c.title \o BRACE_CLOSE \o NEWLINE \o NEWLINE
                      ELSE <<>>) \o c.body]

\* includeFilenames.map((base) => `\\include{${base}}`).join('\n')
RECURSIVE JoinIncludes(_)
JoinIncludes(names) ==
    IF names = <<>> THEN <<>>
    ELSE INCLUDE_OPEN \o Head(names) \o BRACE_CLOSE
           \o (IF Len(names) > 1 THEN NEWLINE ELSE <<>>) \o JoinIncludes(Tail(names))

\* Promise.all has resolved: the include files are written when there are
\* several articles, renderTemplate writes the output, and the results are
\* returned
RenderTemplated ==
    /\ api = "localArticleToTexTemplated" /\ pc = "finalizing"
    /\ \A i \in 1..Len(articleState) : articleState[i] = "done"
    /\ LET output == jobs[1].output
           n == Len(content)
           includes == [i \in 1..n |-> IncludeFile(output, content[i], i)]
           texContent == IF n = 1 THEN content[1].body
                         ELSE JoinIncludes([i \in 1..n |->
                                               IncludeFilename(output, content[i], i)])
       IN  written' = (IF n = 1 THEN <<>> ELSE includes)
                        \o <<[path |-> output,
                              content |-> texContent \o PreambleSuffix(preambleData),
                              parts |-> parts,
                              imports |-> collectedImports,
                              preamble |-> preambleData]>>
    /\ exportResults' = ExportResults(<<>>, <<hasGlossaries>>)
    /\ pc' = "rendered"
    /\ UNCHANGED <<files, frontmatter, requested, opts, api, call, jobs, computed, diags,
                   taskNext, taskList, jobState, scratch, tempFolders>>
    /\ UNCHANGED <<extractVars, content, articleState, parts, collectedImports,
                   preambleData, hasGlossaries, renderCalls, mergeVars, serverVars>>

NextTemplated ==
    \/ \E i \in 1..Len(articleState) : FinalizeArticle(i)
    \/ RenderTemplated

SpecTemplated == InitTemplated /\ [][NextTemplated]_vars

----------------------------------------------------------------------------
(* Properties of a templated job *)

Rendered == api = "localArticleToTexTemplated" /\ pc = "rendered"

\* the articles in which the declared part is found
HavePart == {i \in 1..Len(content) : content[i].mdast[partDefinition.id].present}

\* the value article i gives for the part
PartValueOf(i) ==
    LET part == ExtractTexPart(content[i].mdast, partDefinition)
    IN  IF part.isArray THEN ArrayValue(part.items) ELSE StringValue(part.items[1])

MultiplePartDiags == SelectSeq(diags, LAMBDA d : d.what = "multiple-part")

\* C18: when the part is found in several articles of the job, parts keeps
\* the value of the earliest of them, and one diagnostic is emitted for every
\* later article that has the part, in whatever order the articles are
\* finalized and also when the first value is the empty string
C18_EarliestArticleWins ==
    (Rendered /\ HavePart # {}) =>
        LET first == CHOOSE i \in HavePart : \A j \in HavePart : i <= j
        IN  /\ parts[partDefinition.id] = PartValueOf(first)
            /\ Len(MultiplePartDiags) = Cardinality(HavePart) - 1
            /\ \A i \in HavePart \ {first} :
                  \E n \in 1..Len(MultiplePartDiags) :
                      MultiplePartDiags[n].subject = <<partDefinition.id, jobs[1].articles[i]>>

----------------------------------------------------------------------------
(* The side-data merges, applied to given operands *)

\* most operands of a merge
MaxOperands == 3

\* the side data of a rendered tree: imports, commands and preamble data
SideData(imports, commands, preamble) ==
    [imports |-> imports, commands |-> commands, preamble |-> preamble]

\* side data the renderer may yield
SideDataChoices ==
    { SideData(<<>>, <<>>, EmptyPreamble),
      SideData(<<"i">>, OneKey("a", 1), Preamble(TRUE, FALSE, OneKey("g", 1))),
      SideData(<<"j", "i">>, OneKey("a", 2), Preamble(FALSE, TRUE, OneKey("g", 2))),
      SideData(<<"j">>, OneKey("b", 1),
               [Preamble(FALSE, FALSE, <<>>) EXCEPT !.abbreviations = OneKey("h", 1)]),
      SideData(<<"k", "i">>, MergeMapping(OneKey("a", 1), OneKey("b", 2)),
               [Preamble(FALSE, FALSE, OneKey("g", 1)) EXCEPT !.abbreviations = OneKey("h", 2)]) }

\* mutant: the result is merged into the collected side data from the front
MergeSideData_ResultFirst(current, next) ==
    LET merge == MergePreambles(current.preamble, next.preamble)
        tex == MergeTexTemplateImports(next, current)
    IN  [imports |-> tex.imports, commands |-> tex.commands, preamble |-> merge.data,
         warnings |-> merge.warnings]

\* mutant: the callback is called for the overwritten macros too
MergeSideData_WarnMacros(current, next) ==
    LET merge == MergePreambles(current.preamble, next.preamble)
        tex == MergeTexTemplateImports(current, next)
    IN  [imports |-> tex.imports, commands |-> tex.commands, preamble |-> merge.data,
         warnings |-> OverwriteWarnings("commands", current.commands, next.commands)
                        \o merge.warnings]

\* the merge of the statements `collectedImports = mergeTexTemplateImports(
\* collectedImports, result)` and `preambleData = mergePreambles(preambleData,
\* result.preamble, warningLogFn)`, with the messages given to the callback
MergeSideData(current, next) ==
    LET merge == MergePreambles(current.preamble, next.preamble)
        tex == MergeTexTemplateImports(current, next)
    IN  [imports |-> tex.imports, commands |-> tex.commands, preamble |-> merge.data,
         warnings |-> merge.warnings]

EmptySideData == SideData(<<>>, <<>>, EmptyPreamble)

\* ((empty + x1) + x2) + ...
RECURSIVE FoldLeft(_, _)
FoldLeft(current, list) ==
    IF list = <<>> THEN current
    ELSE FoldLeft(MergeSideData(current, Head(list)), Tail(list))

\* x1 + (x2 + (... + xn))
RECURSIVE FoldRight(_)
FoldRight(list) ==
    IF Len(list) = 1 THEN MergeSideData(EmptySideData, list[1])
    ELSE MergeSideData(list[1], FoldRight(Tail(list)))

NoMerge == [pair |-> <<>>, left |-> <<>>, right |-> <<>>, orders |-> {}]

InitMerge ==
    /\ IdleResolver /\ IdleExtract /\ IdleTemplated /\ IdleServer
    /\ api = "merge"
    /\ pc = "ready"
    /\ operands \in UNION {[1..n -> SideDataChoices] : n \in 2..MaxOperands}
    /\ merged = NoMerge

\* the operands are merged: the first two; all of them from the left and
\* from the right; and all of them from the left in every order
CallMerge ==
    /\ api = "merge" /\ pc = "ready"
    /\ merged' =
          [pair |-> MergeSideData(operands[1], operands[2]),
           left |-> FoldLeft(EmptySideData, operands),
           right |-> FoldRight(operands),
           orders |-> {FoldLeft(EmptySideData, [i \in 1..Len(operands) |-> operands[f[i]]]) :
                          f \in Permutations(1..Len(operands))}]
    /\ pc' = "returned"
    /\ UNCHANGED <<files, frontmatter, requested, opts, api, call, jobs, computed, diags,
                   taskNext, taskList, jobState, scratch, tempFolders>>
    /\ UNCHANGED <<extractVars, templatedVars, operands, serverVars>>

NextMerge == CallMerge

SpecMerge == InitMerge /\ [][NextMerge]_vars

----------------------------------------------------------------------------
(* Properties of the side-data merges *)

Merged == api = "merge" /\ pc = "returned"

\* the imports of all operands, one operand after the other
AllImports == Flatten([i \in 1..Len(operands) |-> operands[i].imports])

\* the entries of a list that occur at no earlier position, in order
FirstOccurrences(list) ==
    LET keep == {i \in 1..Len(list) : \A j \in 1..(i - 1) : list[j] # list[i]}
        RECURSIVE From(_)
        From(i) == IF i > Len(list) THEN <<>>
                   ELSE IF i \in keep THEN <<list[i]>> \o From(i + 1)
                   ELSE From(i + 1)
    IN  From(1)

Elements(list) == {list[i] : i \in 1..Len(list)}

\* C19 as stated: merged in any grouping and any order, the operands yield
\* the same sequence of imports and the same hasProofs and printGlossaries
C19_AnyOrderSameImports ==
    Merged =>
        /\ merged.left.imports = merged.right.imports
        /\ \A o \in merged.orders :
              /\ o.imports = merged.left.imports
              /\ o.preamble.hasProofs = merged.left.preamble.hasProofs
              /\ o.preamble.printGlossaries = merged.left.preamble.printGlossaries

\* C19 amended: the merge is associative (both groupings yield the imports
\* of the operands in order, each at its first occurrence, and the OR of the
\* booleans); in another order of the operands the booleans and the set of
\* imports are the same, each import occurring once, but the sequence of
\* imports follows the order in which the operands are merged
C19_AssociativeSameSet ==
    Merged =>
        /\ merged.left.imports = FirstOccurrences(AllImports)
        /\ merged.right.imports = merged.left.imports
        /\ merged.left.preamble.hasProofs = (\E i \in 1..Len(operands) : operands[i].preamble.hasProofs)
        /\ merged.left.preamble.printGlossaries =
              (\E i \in 1..Len(operands) : operands[i].preamble.printGlossaries)
        /\ merged.right.preamble.hasProofs = merged.left.preamble.hasProofs
        /\ merged.right.preamble.printGlossaries = merged.left.preamble.printGlossaries
        /\ \A o \in merged.orders :
              /\ Elements(o.imports) = Elements(merged.left.imports)
              /\ Len(o.imports) = Cardinality(Elements(o.imports))
              /\ o.preamble.hasProofs = merged.left.preamble.hasProofs
              /\ o.preamble.printGlossaries = merged.left.preamble.printGlossaries

\* three operands whose imports come out in different sequences in different orders
C19_Witness ==
    /\ Merged
    /\ Len(operands) = 3
    /\ merged.left.imports = <<"i", "j", "k">>
    /\ \E o \in merged.orders : o.imports = <<"j", "i", "k">>
    /\ merged.left.preamble.hasProofs /\ merged.left.preamble.printGlossaries

\* the keys two mappings share
Shared(current, next) == DOMAIN current \cap DOMAIN next

\* the union by key of two mappings, the later value on a shared key
LaterWins(result, current, next) ==
    /\ DOMAIN result = DOMAIN current \cup DOMAIN next
    /\ \A k \in DOMAIN next : result[k] = next[k]
    /\ \A k \in DOMAIN current \ DOMAIN next : result[k] = current[k]

\* number of calls of the diagnostic callback for a key of a mapping
WarningsFor(mapping, key) ==
    Cardinality({n \in 1..Len(merged.pair.warnings) :
                    merged.pair.warnings[n] = [mapping |-> mapping, key |-> key]})

\* C20 as stated: macro, glossary and abbreviation mappings are united by
\* key, the later value overwriting, with one call of the diagnostic callback
\* for every overwritten key and none for the other keys
C20_DiagnosticPerOverwrittenKey ==
    Merged =>
        LET a == operands[1]
            b == operands[2]
        IN  /\ LaterWins(merged.pair.commands, a.commands, b.commands)
            /\ LaterWins(merged.pair.preamble.glossary, a.preamble.glossary, b.preamble.glossary)
            /\ LaterWins(merged.pair.preamble.abbreviations, a.preamble.abbreviations,
                         b.preamble.abbreviations)
            /\ \A k \in {"a", "b"} :
                  WarningsFor("commands", k) = IF k \in Shared(a.commands, b.commands) THEN 1 ELSE 0
            /\ \A k \in {"g"} :
                  WarningsFor("glossary", k) =
                      IF k \in Shared(a.preamble.glossary, b.preamble.glossary) THEN 1 ELSE 0
            /\ \A k \in {"h"} :
                  WarningsFor("abbreviations", k) =
                      IF k \in Shared(a.preamble.abbreviations, b.preamble.abbreviations)
                      THEN 1 ELSE 0

\* C20 amended: the three mappings are united by key, the later value
\* overwriting; mergePreambles calls the diagnostic callback once for every
\* overwritten key of glossary and abbreviations and not for the other keys;
\* mergeTexTemplateImports is given no callback, an overwritten macro yields
\* no diagnostic
C20_DiagnosticPerOverwrittenTerm ==
    Merged =>
        LET a == operands[1]
            b == operands[2]
        IN  /\ LaterWins(merged.pair.commands, a.commands, b.commands)
            /\ LaterWins(merged.pair.preamble.glossary, a.preamble.glossary, b.preamble.glossary)
            /\ LaterWins(merged.pair.preamble.abbreviations, a.preamble.abbreviations,
                         b.preamble.abbreviations)
            /\ \A k \in {"a", "b"} : WarningsFor("commands", k) = 0
            /\ \A k \in {"g"} :
                  WarningsFor("glossary", k) =
                      IF k \in Shared(a.preamble.glossary, b.preamble.glossary) THEN 1 ELSE 0
            /\ \A k \in {"h"} :
                  WarningsFor("abbreviations", k) =
                      IF k \in Shared(a.preamble.abbreviations, b.preamble.abbreviations)
                      THEN 1 ELSE 0
            /\ Len(merged.pair.warnings) =
                  Cardinality(Shared(a.preamble.glossary, b.preamble.glossary))
                    + Cardinality(Shared(a.preamble.abbreviations, b.preamble.abbreviations))

\* {a: 1} then {a: 2} for the macros and {g: 1} then {g: 2} for the glossary
C20_Witness ==
    /\ Merged
    /\ operands[1].commands = OneKey("a", 1) /\ operands[2].commands = OneKey("a", 2)
    /\ operands[1].preamble.glossary = OneKey("g", 1)
    /\ operands[2].preamble.glossary = OneKey("g", 2)
    /\ merged.pair.commands = OneKey("a", 2)
    /\ merged.pair.preamble.glossary = OneKey("g", 2)
    /\ merged.pair.warnings = <<[mapping |-> "glossary", key |-> "g"]>>

----------------------------------------------------------------------------
(* runTexExport and runTexZipExport: one job, raw or templated, wrapped or not *)

EXPORT_ZIP == <<"/", "o", "/", "m", ".", "z", "i", "p">>

\* the files the job's articles may name
ArticleFiles == {ArticlePath(i) : i \in 1..MaxArticles}

\* the job handed to the export
ExportJob(output, templateNull, articles) ==
    [format |-> "tex", output |-> output, templateNull |-> templateNull,
     template |-> <<>>, hasArticles |-> TRUE, articles |-> articles,
     hasSub |-> FALSE, sub_articles |-> <<>>]

\* the slugs of different files differ
DistinctSlugs(loaded) ==
    \A f, g \in DOMAIN loaded :
        (f # g /\ loaded[f].slug # <<>>) => loaded[f].slug # loaded[g].slug

\* a job of one or several articles, which may name a file twice; what
\* getFileContent loads for an article is what the article's file holds
InitExport ==
    /\ IdleMerge /\ IdleServer
    /\ tree = <<>>
    /\ treeBefore = <<>>
    /\ tagDefinition = <<>>
    /\ tagged = <<>>
    /\ mdast = <<>>
    /\ fragments = <<>>
    /\ partDefinition \in [id : {PART_ID}, as_list : BOOLEAN]
    /\ files = <<SRC_A>>
    /\ frontmatter = <<>>
    /\ requested = {}
    /\ opts = <<>>
    /\ api = "none"
    /\ pc = "ready"
    /\ call = NoCall
    /\ \E n \in 1..MaxArticles :
       \E articles \in [1..n -> ArticleFiles] :
       \E loaded \in [ArticleFiles -> ContentChoices] :
          /\ DistinctSlugs(loaded)
          /\ content = [i \in 1..n |-> loaded[articles[i]]]
          /\ jobs \in {<<ExportJob(output, templateNull, articles)>> :
                          output \in {TEMPLATED_OUTPUT, EXPORT_ZIP}, templateNull \in BOOLEAN}
    /\ articleState = <<>>
    /\ computed = <<>>
    /\ diags = <<>>
    /\ taskNext = <<>>
    /\ taskList = <<>>
    /\ jobState = <<>>
    /\ scratch = <<>>
    /\ tempFolders = <<>>
    /\ parts = [id \in {PART_ID} |-> NoValue]
    /\ collectedImports = EmptyImports
    /\ preambleData = EmptyPreamble
    /\ hasGlossaries = FALSE
    /\ written = <<>>
    /\ renderCalls = <<>>
    /\ exportResults = <<>>

\* if (exportOptions.template === null) of runTexExport
ExportFunction(job) ==
    IF job.templateNull THEN "localArticleToTexRaw" ELSE "localArticleToTexTemplated"

\* runTexExport is called with the job and runs to the await of finalizeMdast
\* in every article's callback
RunTexExport ==
    /\ api = "none" /\ pc = "ready"
    /\ Len(content) > 0
    /\ ~IsZipJob(jobs[1])
    /\ call' = [fn |-> "runTexExport", exportOptions |-> jobs[1]]
    /\ scratch' = <<NoScratch>>
    /\ api' = ExportFunction(jobs[1])
    /\ pc' = "finalizing"
    /\ articleState' = [i \in 1..Len(content) |-> "finalizing"]
    /\ UNCHANGED <<files, frontmatter, requested, opts, jobs, computed, diags,
                   taskNext, taskList, jobState, tempFolders>>
    /\ UNCHANGED <<extractVars, content, parts, collectedImports, preambleData,
                   hasGlossaries, written, renderCalls, exportResults, mergeVars, serverVars>>

\* runTexZipExport is called with the job: the temp folder is created,
\* exportOptions.output is assigned the path inside it, and runTexExport runs
\* to the await of finalizeMdast in every article's callback
RunTexZipExport ==
    /\ api = "none" /\ pc = "ready"
    /\ Len(content) > 0
    /\ IsZipJob(jobs[1])
    /\ call' = [fn |-> "runTexZipExport", exportOptions |-> jobs[1]]
    /\ scratch' = <<[folder |-> CreateTempFolder(1), zipOutput |-> jobs[1].output]>>
    /\ jobs' = <<ZipRedirect(jobs[1], 1)>>
    /\ api' = ExportFunction(jobs[1])
    /\ pc' = "finalizing"
    /\ articleState' = [i \in 1..Len(content) |-> "finalizing"]
    /\ UNCHANGED <<files, frontmatter, requested, opts, computed, diags,
                   taskNext, taskList, jobState, tempFolders>>
    /\ UNCHANGED <<extractVars, content, parts, collectedImports, preambleData,
                   hasGlossaries, written, renderCalls, exportResults, mergeVars, serverVars>>

\* localArticleToTexRaw: finalizeMdast of article i resolves and the article
\* is rendered by mdastToTex(session, mdast, references, frontmatter, null, false)
FinalizeRawArticle(i) ==
    /\ api = "localArticleToTexRaw" /\ pc = "finalizing"
    /\ i \in 1..Len(articleState)
    /\ articleState[i] = "finalizing"
    /\ articleState' = [articleState EXCEPT ![i] = "done"]
    /\ renderCalls' = Append(renderCalls, [of |-> "body", printGlossaries |-> FALSE])
    /\ UNCHANGED <<files, frontmatter, requested, opts, api, pc, call, jobs, computed,
                   diags, taskNext, taskList, jobState, scratch, tempFolders>>
    /\ UNCHANGED <<extractVars, content, parts, collectedImports, preambleData,
                   hasGlossaries, written, exportResults, mergeVars, serverVars>>

\* `${name}-${content[ind]?.slug ?? ind}${ext}`
RawIncludeBase(output, c, i) == IncludeFilename(output, c, i) \o PathParse(output).ext

\* localArticleToTexRaw once Promise.all has resolved: the body is written to
\* the output, or the include files and the list of includes are; the
\* results carry no glossary flag
WriteRaw ==
    /\ api = "localArticleToTexRaw" /\ pc = "finalizing"
    /\ \A i \in 1..Len(articleState) : articleState[i] = "done"
    /\ LET output == jobs[1].output
           n == Len(content)
       IN  written' =
              IF n = 1 THEN <<[path |-> output, content |-> BodyResult(content[1]).value]>>
              ELSE [i \in 1..n |-> IncludeFile(output, content[i], i)]
                     \o <<[path |-> output,
                           content |-> JoinIncludes([i \in 1..n |->
                                                       RawIncludeBase(output, content[i], i)])]>>
    /\ exportResults' = ExportResults(<<>>, <<>>)
    /\ pc' = "rendered"
    /\ UNCHANGED <<files, frontmatter, requested, opts, api, call, jobs, computed, diags,
                   taskNext, taskList, jobState, scratch, tempFolders>>
    /\ UNCHANGED <<extractVars, content, articleState, parts, collectedImports,
                   preambleData, hasGlossaries, renderCalls, mergeVars, serverVars>>

\* zip.addLocalFolder(texFolder): the files written under the folder
FolderFiles(folder) ==
    {written[k].path : k \in {x \in 1..Len(written) : Dirname(written[x].path) = folder}}

\* runTexZipExport after the awaited runTexExport: the temp folder is zipped
\* to zipOutput and returned as the only temp folder
WriteZip ==
    /\ api \in {"localArticleToTexRaw", "localArticleToTexTemplated"}
    /\ pc = "rendered"
    /\ scratch[1] # NoScratch
    /\ written' = Append(written, [path |-> scratch[1].zipOutput,
                                   content |-> FolderFiles(scratch[1].folder)])
    /\ exportResults' = ExportResults(<<scratch[1].folder>>, <<>>)
    /\ pc' = "zipped"
    /\ UNCHANGED <<files, frontmatter, requested, opts, api, call, jobs, computed, diags,
                   taskNext, taskList, jobState, scratch, tempFolders>>
    /\ UNCHANGED <<extractVars, content, articleState, parts, collectedImports,
                   preambleData, hasGlossaries, renderCalls, mergeVars, serverVars>>

NextExport ==
    \/ RunTexExport
    \/ RunTexZipExport
    \/ \E i \in 1..Len(articleState) : FinalizeArticle(i)
    \/ \E i \in 1..Len(articleState) : FinalizeRawArticle(i)
    \/ RenderTemplated
    \/ WriteRaw
    \/ WriteZip

SpecExport == InitExport /\ [][NextExport]_vars

----------------------------------------------------------------------------
(* Properties of one job's export *)

ExportRendered ==
    /\ api \in {"localArticleToTexRaw", "localArticleToTexTemplated"}
    /\ pc \in {"rendered", "zipped"}

\* the run is over: the export has returned its results
ExportReturned ==
    /\ ExportRendered
    /\ pc = "rendered" => scratch[1] = NoScratch

\* the files written by the render, the archive apart
RenderFiles == SelectSeq(written, LAMBDA w : w.path # scratch[1].zipOutput)

\* the files written beside the output
AuxFiles == SelectSeq(RenderFiles, LAMBDA w : w.path # jobs[1].output)

\* the slug of article i, or its index counted from 0
SlugOrIndex(i) == IF content[i].slug # <<>> THEN content[i].slug ELSE NumToStr(i - 1)

\* output base name + '-' + slug or index, in the output's directory and with
\* its extension
ExpectedAuxPath(i) ==
    Stem(jobs[1].output) \o <<"-">> \o SlugOrIndex(i) \o Extname(jobs[1].output)

\* the references of the top-level content, with or without the extension
ExpectedReferences(withExt) ==
    JoinIncludes([i \in 1..Len(content) |->
                     Basename(Stem(jobs[1].output)) \o <<"-">> \o SlugOrIndex(i)
                        \o (IF withExt THEN Extname(jobs[1].output) ELSE <<>>)])

\* what both statements of C21 share: one article is written at the output
\* path alone; several articles are written to the expected paths, in
\* declared order, followed by the output, whose content lists one reference
\* per article in declared order (with the extension on the raw path,
\* without it and followed by the preamble's suffix on the templated path)
LayoutAsDeclared ==
    LET n == Len(content)
        top == RenderFiles[Len(RenderFiles)]
    IN  /\ Len(RenderFiles) > 0
        /\ top.path = jobs[1].output
        /\ n = 1 => Len(RenderFiles) = 1
        /\ n >= 2 =>
              /\ Len(AuxFiles) = n
              /\ \A i \in 1..n : AuxFiles[i].path = ExpectedAuxPath(i)
              /\ Len(RenderFiles) = n + 1
              /\ top.content = IF api = "localArticleToTexRaw"
                               THEN ExpectedReferences(TRUE)
                               ELSE ExpectedReferences(FALSE) \o PreambleSuffix(preambleData)

\* C21 as stated: one article is written at the output path and no auxiliary
\* file is; N >= 2 articles give exactly N distinct auxiliary files, named
\* by slug or index beside the output, each referenced once by the top-level
\* content in declared order, on the raw and on the templated path alike
C21_DistinctAuxiliaryFiles ==
    ExportRendered =>
        /\ LayoutAsDeclared
        /\ Len(content) >= 2 =>
              Cardinality({AuxFiles[i].path : i \in 1..Len(AuxFiles)}) = Len(content)

\* C21, amended: the auxiliary files are as many as the distinct names
\* (slug, else index) of the articles; an article listed twice is written to
\* one file, twice, and referenced twice
C21_AuxiliaryFilesBySlug ==
    ExportRendered =>
        /\ LayoutAsDeclared
        /\ Len(content) >= 2 =>
              Cardinality({AuxFiles[i].path : i \in 1..Len(AuxFiles)})
                 = Cardinality({SlugOrIndex(i) : i \in 1..Len(content)})

\* a job that lists one file with a slug twice has been rendered
C21_Witness ==
    /\ ExportRendered
    /\ Len(content) = 2
    /\ jobs[1].articles[1] = jobs[1].articles[2]
    /\ content[1].slug # <<>>
    /\ Len(AuxFiles) = 2
    /\ AuxFiles[1].path = AuxFiles[2].path

\* some article of the job holds a glossary node
AnyGlossary == \E i \in 1..Len(content) : HasGlossary(content[i])

\* the calls of the renderer that ask for the glossaries to be printed
PrintingCalls == SelectSeq(renderCalls, LAMBDA c : c.printGlossaries)

\* C22: a raw export never asks the renderer to print glossaries, nor does
\* the extraction of a part; the body renders of a templated export do; and
\* the results of every export, raw, templated or wrapped, carry a glossary
\* flag that is true exactly when an article holds a glossary node
C22_GlossaryFlagReported ==
    /\ api = "localArticleToTexRaw" => PrintingCalls = <<>>
    /\ \A k \in 1..Len(renderCalls) :
          renderCalls[k].printGlossaries <=>
              (renderCalls[k].of = "body" /\ api = "localArticleToTexTemplated")
    /\ ExportReturned => exportResults.hasGlossaries = <<AnyGlossary>>

\* the export runs in archive mode
ArchiveMode ==
    /\ api \in {"localArticleToTexRaw", "localArticleToTexTemplated"}
    /\ scratch[1] # NoScratch

\* path lies under folder
Inside(path, folder) ==
    /\ Len(path) > Len(folder) + 1
    /\ SubSeq(path, 1, Len(folder) + 1) = folder \o <<"/">>

\* the positions of written at which the archive's path is written
ArchiveWrites == {k \in 1..Len(written) : written[k].path = scratch[1].zipOutput}

\* C23: in archive mode every file of the render is written inside the temp
\* folder created for the job and none in the directory of the job's '.zip'
\* output; the archive is written once, at that output, only after the
\* render, and holds the files of the temp folder; and the results'
\* tempFolders is exactly the temp folder
C23_ArchiveFromScratch ==
    ArchiveMode =>
        /\ scratch[1].folder = CreateTempFolder(1)
        /\ scratch[1].zipOutput = call.exportOptions.output
        /\ \A k \in 1..Len(RenderFiles) :
              /\ Inside(RenderFiles[k].path, scratch[1].folder)
              /\ ~Inside(RenderFiles[k].path, Dirname(scratch[1].zipOutput))
        /\ pc # "zipped" => ArchiveWrites = {}
        /\ pc = "zipped" =>
              /\ ArchiveWrites = {Len(written)}
              /\ Len(RenderFiles) = Len(written) - 1
              /\ written[Len(written)].content
                    = {RenderFiles[k].path : k \in 1..Len(RenderFiles)}
              /\ exportResults.tempFolders = <<scratch[1].folder>>

\* a wrapped job of two articles was rendered into the temp folder and zipped
C23_Witness ==
    /\ ArchiveMode
    /\ pc = "zipped"
    /\ Len(written) = 4
    /\ Cardinality(written[4].content) = 3
    /\ written[4].path = EXPORT_ZIP

----------------------------------------------------------------------------
(* Properties of the batch runner *)

\* localArticleToTex has started its jobs
RunnerStarted == api = "localArticleToTex" /\ pc \in {"running", "finished", "rejected"}

\* localArticleToTex has returned or re-raised
RunnerOver == api = "localArticleToTex" /\ pc \in {"finished", "rejected"}

JobsIn(state) == {i \in 1..Len(jobState) : jobState[i] = state}

FailureDiags == SelectSeq(diags, LAMBDA d : d.rule = "exportFailed")

\* C24: every job of the source file is started before any is awaited, a
\* running job can complete whatever happened to its siblings, the call is
\* over only when every job has settled, it re-raises exactly when
\* throwOnFailure is set and a job failed, and every failure is reported by
\* a diagnostic
C24_FailuresSpareSiblings ==
    RunnerStarted =>
        /\ Len(jobState) = Len(jobs)
        /\ Len(jobs) = Len(Kept)
        /\ \A i \in JobsIn("running") : ENABLED JobSucceed(i)
        /\ Len(FailureDiags) = Cardinality(JobsIn("failed"))
        /\ \A i \in JobsIn("failed") :
              \E k \in 1..Len(FailureDiags) : FailureDiags[k].subject = jobs[i].output
        /\ RunnerOver => JobsIn("running") = {}
        /\ pc = "rejected" <=>
              (RunnerOver /\ opts.throwOnFailure /\ JobsIn("failed") # {})

\* with throwOnFailure, one job failed, its sibling completed, and only then
\* was the failure re-raised
C24_Witness ==
    /\ api = "localArticleToTex" /\ pc = "rejected"
    /\ Len(jobState) = 2
    /\ jobState[1] = "failed"
    /\ jobState[2] = "done"

\* the temp folders the jobs created
CreatedFolders == {scratch[i].folder : i \in {k \in 1..Len(scratch) : scratch[k] # NoScratch}}

\* C27: once localArticleToTex has returned or re-raised, every temp folder
\* a job created is listed in the aggregate tempFolders, the folder of a job
\* that failed after creating it included, and none is listed twice
C27_EveryScratchListed ==
    RunnerOver =>
        /\ CreatedFolders \subseteq {tempFolders[k] : k \in 1..Len(tempFolders)}
        /\ \A k, l \in 1..Len(tempFolders) : tempFolders[k] = tempFolders[l] => k = l

----------------------------------------------------------------------------
(* One job's export against the sequential run of its articles *)

\* the shared values of localArticleToTexTemplated before any article
SharedAtStart ==
    [parts |-> [id \in {PART_ID} |-> NoValue], imports |-> EmptyImports,
     preamble |-> EmptyPreamble, diags |-> <<>>]

\* the shared values after the callback of article i ran on the values st
AfterArticle(st, i) ==
    LET step == PartStep(partDefinition, jobs[1].articles[i],
                         ExtractTexPart(content[i].mdast, partDefinition),
                         st.parts[partDefinition.id], st.imports)
        merge == MergePreambles(st.preamble, BodyResult(content[i]).preamble)
    IN  [parts |-> [st.parts EXCEPT ![partDefinition.id] = step.value],
         imports |-> MergeTexTemplateImports(step.imports, BodyResult(content[i])),
         preamble |-> merge.data,
         diags |-> st.diags \o step.diags
                      \o MapSeq(LAMBDA w : TexDiag(SRC_A, "warn", "duplicate", w),
                                merge.warnings)]

\* the shared values when the callbacks of articles 1..i run in declared order
RECURSIVE InDeclaredOrder(_)
InDeclaredOrder(i) ==
    IF i = 0 THEN SharedAtStart ELSE AfterArticle(InDeclaredOrder(i - 1), i)

\* C25: whatever the order in which the articles of a job finish finalizing,
\* the extracted parts, the merged imports as an ordered list, the merged
\* mappings and the diagnostics of the rendered job are those of the run
\* that processes the articles one after the other in declared order
C25_OrderIndependent ==
    (ExportRendered /\ api = "localArticleToTexTemplated") =>
        LET inOrder == InDeclaredOrder(Len(content))
        IN  /\ parts = inOrder.parts
            /\ collectedImports = inOrder.imports
            /\ preambleData = inOrder.preamble
            /\ diags = inOrder.diags

\* C26: from the call of runTexExport or runTexZipExport on, the job
\* descriptor is the one that was handed to the call, field by field; its
\* output path in particular is unchanged by the run
C26_JobDescriptorUnchanged ==
    api \in {"localArticleToTexRaw", "localArticleToTexTemplated"} =>
        /\ jobs[1] = call.exportOptions
        /\ jobs[1].output = call.exportOptions.output

----------------------------------------------------------------------------
(* launchJupyterServer: the promise, the stderr handler and the timer *)

\* most chunks the server writes to stderr
MaxChunks == 2

\* setTimeout(reject, 20_000), in seconds
TIMEOUT_SECONDS == 20

TOKEN_MARK == <<"?", "t", "o", "k", "e", "n", "=">>

\* \s of the pattern
IsSpace(c) == c \in {" ", "\n", "\t"}

\* '?token=' stands at position k of data
MarkAt(data, k) ==
    /\ k + Len(TOKEN_MARK) - 1 <= Len(data)
    /\ SubSeq(data, k, k + Len(TOKEN_MARK) - 1) = TOKEN_MARK

\* the positions k of a mark that a run of non-space characters from s reaches
MarksFrom(data, s) ==
    {k \in s..Len(data) : MarkAt(data, k) /\ \A j \in s..(k - 1) : ~IsSpace(data[j])}

\* the characters of the longest run of non-space characters from position k
RECURSIVE NonSpaceRun(_, _)
NonSpaceRun(data, k) ==
    IF k > Len(data) \/ IsSpace(data[k]) THEN <<>>
    ELSE <<data[k]>> \o NonSpaceRun(data, k + 1)

NoMatch == [matched |-> FALSE, addr |-> <<>>, token |-> <<>>]

\* data.match(/([^\s]*?)\?token=([^\s]*)/): the leftmost start, from it the
\* shortest address, then the longest token
Match(data) ==
    LET starts == {st \in 1..Len(data) : MarksFrom(data, st) # {}}
    IN  IF starts = {} THEN NoMatch
        ELSE LET st == CHOOSE x \in starts : \A y \in starts : x <= y
                 k == CHOOSE x \in MarksFrom(data, st) : \A y \in MarksFrom(data, st) : x <= y
             IN  [matched |-> TRUE,
                  addr |-> SubSeq(data, st, k - 1),
                  token |-> NonSpaceRun(data, k + Len(TOKEN_MARK))]

\* what the server may write to stderr: a log line, the address line, and
\* an address inside a sentence
ChunkChoices ==
    { <<"u", "p">>,
      <<"h">> \o TOKEN_MARK \o <<"a">>,
      <<"a", "t", " ", "g">> \o TOKEN_MARK \o <<"b", "\n">> }

\* resolve(value) and reject(): a settled promise ignores them
Resolve(p, value) ==
    IF p.state = "pending" THEN [state |-> "resolved", value |-> value, logged |-> 1] ELSE p

Reject(p) ==
    IF p.state = "pending" THEN [state |-> "rejected", value |-> <<>>, logged |-> 0] ELSE p

\* proc.stdout.removeAllListeners('data')
RemoveStdoutListeners(l) == [l EXCEPT !.stdout = 0]

InitServer ==
    /\ IdleResolver /\ IdleExtract /\ IdleTemplated /\ IdleMerge /\ IdleServer
    /\ api = "none"
    /\ pc = "ready"

\* launchJupyterServer: the process is spawned, the handler is subscribed to
\* stderr, the timer is set and the pending promise is returned
Launch ==
    /\ api = "none" /\ pc = "ready"
    /\ timer = "none"
    /\ api' = "launchJupyterServer"
    /\ pc' = "launched"
    /\ promise' = [state |-> "pending", value |-> <<>>, logged |-> 0]
    /\ listeners' = [stderr |-> 1, stdout |-> 0]
    /\ timer' = "set"
    /\ UNCHANGED <<files, frontmatter, requested, opts, call, jobs, computed, diags,
                   taskNext, taskList, jobState, scratch, tempFolders>>
    /\ UNCHANGED <<extractVars, templatedVars, mergeVars, clock, emitted, handled>>

\* the handler of stderr 'data': without a match it returns; with one it
\* resolves the promise and removes the 'data' listeners of stdout
StderrHandler(data) ==
    LET match == Match(data)
    IN  /\ handled' = Append(handled, [data |-> data, at |-> clock])
        /\ IF match.matched
           THEN /\ promise' = Resolve(promise, [baseUrl |-> match.addr, token |-> match.token])
                /\ listeners' = RemoveStdoutListeners(listeners)
           ELSE UNCHANGED <<promise, listeners>>

\* the server writes a chunk to stderr; a timer that is due runs first
StderrData(data) ==
    /\ api = "launchJupyterServer"
    /\ Len(emitted) < MaxChunks
    /\ clock < TIMEOUT_SECONDS \/ timer = "fired"
    /\ emitted' = Append(emitted, [data |-> data, at |-> clock])
    /\ IF listeners.stderr > 0
       THEN StderrHandler(data)
       ELSE UNCHANGED <<promise, listeners, handled>>
    /\ UNCHANGED <<files, frontmatter, requested, opts, api, pc, call, jobs, computed,
                   diags, taskNext, taskList, jobState, scratch, tempFolders>>
    /\ UNCHANGED <<extractVars, templatedVars, mergeVars, clock, timer>>

\* a second passes
Tick ==
    /\ api = "launchJupyterServer"
    /\ clock < TIMEOUT_SECONDS
    /\ clock' = clock + 1
    /\ UNCHANGED <<files, frontmatter, requested, opts, api, pc, call, jobs, computed,
                   diags, taskNext, taskList, jobState, scratch, tempFolders>>
    /\ UNCHANGED <<extractVars, templatedVars, mergeVars, promise, listeners, emitted,
                   handled, timer>>

\* the timer fires 20 seconds after the launch: reject()
TimerFires ==
    /\ api = "launchJupyterServer"
    /\ timer = "set"
    /\ clock = TIMEOUT_SECONDS
    /\ timer' = "fired"
    /\ promise' = Reject(promise)
    /\ UNCHANGED <<files, frontmatter, requested, opts, api, pc, call, jobs, computed,
                   diags, taskNext, taskList, jobState, scratch, tempFolders>>
    /\ UNCHANGED <<extractVars, templatedVars, mergeVars, clock, listeners, emitted,
                   handled>>

NextServer ==
    \/ Launch
    \/ \E data \in ChunkChoices : StderrData(data)
    \/ Tick
    \/ TimerFires

SpecServer == InitServer /\ [][NextServer]_vars

----------------------------------------------------------------------------
(* Properties of launchJupyterServer *)

Launched == api = "launchJupyterServer"

\* the positions of emitted at which the chunk matches the pattern
Matching == {k \in 1..Len(emitted) : Match(emitted[k].data).matched}

\* the first matching chunk written before the timer was due
FirstInTime ==
    LET inTime == {k \in Matching : emitted[k].at < TIMEOUT_SECONDS}
    IN  IF inTime = {} THEN 0 ELSE CHOOSE k \in inTime : \A l \in inTime : k <= l

\* C28: the promise resolves with the address and token of the first stderr
\* chunk that matches, when one arrives within 20 seconds, and is rejected
\* at 20 seconds otherwise; later chunks and the timer do not change the
\* outcome; and once the server has declared itself up the handler is
\* unsubscribed, so no later stderr chunk is processed
C28_SettlesOnceThenUnsubscribed ==
    Launched =>
        /\ promise.state = "resolved" <=> FirstInTime # 0
        /\ promise.state = "resolved" =>
              /\ promise.value.baseUrl = Match(emitted[FirstInTime].data).addr
              /\ promise.value.token = Match(emitted[FirstInTime].data).token
              /\ promise.logged = 1
        /\ promise.state = "rejected" <=> (timer = "fired" /\ FirstInTime = 0)
        /\ FirstInTime # 0 =>
              /\ listeners.stderr = 0
              /\ Len(handled) = FirstInTime

====
